---- MODULE Spec2Model ----
(***************************************************************************)
(* Setzkasten: the policy evaluation engine (packages/cli/src/lib/policy.js)*)
(* the quote generation engine (packages/cli/src/lib/quote.js) and the     *)
(* canonicalizer / fingerprint primitive of the core package, and the      *)
(* calls that edit a manifest: addFontToManifest, removeFontFromManifest   *)
(* (packages/manifest-lib/src/index.js) and applyPruneCandidates (the CLI).*)
(*                                                                         *)
(* A manifest is a record of sequences, in document order.  A field that  *)
(* is absent from the document (JavaScript undefined) is Null for a string *)
(* field, NoNumber for a number field, the empty sequence for an array     *)
(* field and Undefined for an object field.                                *)
(***************************************************************************)
EXTENDS Integers, Sequences, FiniteSets, TLC

VARIABLES
    manifest,      \* the in-memory manifest document handed to the engines
    policy,        \* what the last evaluatePolicy call returned (NotCalled before)
    quotes,        \* what the successive generateQuote calls returned, oldest first
    clock,         \* the wall clock nowIso() reads
    value,         \* a JSON value handed to canonicalize / canonicalStringify
    other,         \* the same JSON value as built by another writer (other key order)
    canon,         \* what the last canonicalize / fingerprint call returned
    edit           \* what the last call that edits a manifest was given and returned

vars == <<manifest, policy, quotes, clock, value, other, canon, edit>>

---------------------------------------------------------------------------
(* Bounds of the model *)

MaxFonts == 2          \* fonts in a manifest
MaxKinds == 2          \* entries of a modification-kind list
MaxInstances == 2      \* license instances in a manifest of the quote runs
MaxRules == 2          \* rules of a price formula
MaxCalls == 2          \* successive calls of generateQuote
MaxClock == 1          \* readings of the wall clock after the first
MaxDepth == 2          \* nesting depth of a JSON value
MaxLen == 2            \* items of a JSON array, keys of a JSON object
MaxDomains == 2        \* domains of a project

---------------------------------------------------------------------------
(* JavaScript values that are not there *)

Null == "<null>"
Undefined == [undefined |-> TRUE]
NotCalled == [called |-> FALSE]

\* Range of a sequence
Range(s) == {s[i] : i \in DOMAIN s}

\* Array.prototype.includes
Includes(s, e) == \E i \in DOMAIN s : s[i] = e

---------------------------------------------------------------------------
(* policy.js: guards on dynamically typed fields *)

asObject(v) == IF v = Undefined THEN Undefined ELSE v

asString(v) == IF v = Null \/ v = "" THEN Null ELSE v

NonEmptyString(e) == e # Null /\ e # ""

asStringArray(v) == SelectSeq(v, NonEmptyString)

readProjectDomains(m) ==
    LET project == asObject(m.project)
    IN  IF project = Undefined THEN <<>> ELSE asStringArray(project.domains)

\* the key of an offering if the version were left out of it
makeOfferingKey_IdOnly(offeringId, offeringVersion) == offeringId

makeOfferingKey(offeringId, offeringVersion) == offeringId \o "@" \o offeringVersion

\* the first of the three candidate usage fields that holds a non-empty list
readRequiredModifications(fontUsage) ==
    LET usage == asObject(fontUsage)
    IN  IF usage = Undefined THEN <<>>
        ELSE IF Len(asStringArray(usage.required_modifications)) > 0
             THEN asStringArray(usage.required_modifications)
        ELSE IF Len(asStringArray(usage.modifications_required)) > 0
             THEN asStringArray(usage.modifications_required)
        ELSE IF Len(asStringArray(usage.requiredModificationKinds)) > 0
             THEN asStringArray(usage.requiredModificationKinds)
        ELSE <<>>

\* usage.hosting is absent (kind "undefined"), a string (kind "string", one
\* entry in val) or an array of strings (kind "array")
isSelfHostingUsage(fontUsage) ==
    LET usage == asObject(fontUsage)
    IN  IF usage = Undefined THEN FALSE
        ELSE IF usage.self_hosting = TRUE THEN TRUE
        ELSE IF usage.hosting.kind = "string" THEN usage.hosting.val[1] = "self_hosting"
        ELSE IF usage.hosting.kind = "array" THEN Includes(usage.hosting.val, "self_hosting")
        ELSE FALSE

\* index of the first right of that type, 0 when there is none (null)
findRight(rights, rightType) ==
    IF \E i \in DOMAIN rights : rights[i].right_type = rightType
    THEN CHOOSE i \in DOMAIN rights :
            /\ rights[i].right_type = rightType
            /\ \A j \in 1..(i - 1) : rights[j].right_type # rightType
    ELSE 0

\* makeDecision with the two tests in the other order
makeDecision_WarnFirst(reasons) ==
    IF \E i \in DOMAIN reasons : reasons[i].severity = "warn" THEN "warn"
    ELSE IF \E i \in DOMAIN reasons : reasons[i].severity = "escalate" THEN "escalate"
    ELSE "allow"

makeDecision(reasons) ==
    IF \E i \in DOMAIN reasons : reasons[i].severity = "escalate" THEN "escalate"
    ELSE IF \E i \in DOMAIN reasons : reasons[i].severity = "warn" THEN "warn"
    ELSE "allow"

normalizeRights(v) == v

\* Map.get on a Map filled by set() in document order: of the entries set
\* under the key (given by their positions) the last one wins; 0 when the
\* key is not in the map
MapGet(hits) ==
    IF hits = {} THEN 0 ELSE CHOOSE i \in hits : \A j \in hits : j <= i

instancesById(instances, id) ==
    MapGet({i \in DOMAIN instances :
                /\ asString(instances[i].license_id) # Null
                /\ asString(instances[i].license_id) = id})

offeringsByKey(offerings, key) ==
    MapGet({i \in DOMAIN offerings :
                /\ asString(offerings[i].offering_id) # Null
                /\ asString(offerings[i].offering_version) # Null
                /\ makeOfferingKey(asString(offerings[i].offering_id),
                                   asString(offerings[i].offering_version)) = key})

---------------------------------------------------------------------------
(* policy.js: evaluatePolicy, one font *)

\* activeInstanceId with the first of license_instance_ids taken before
\* active_license_instance_id
activeInstanceId_FirstIdWins(font) ==
    LET instanceIds == asStringArray(font.license_instance_ids)
    IN  IF Len(instanceIds) > 0 THEN instanceIds[1]
        ELSE IF asString(font.active_license_instance_id) # Null
        THEN asString(font.active_license_instance_id)
        ELSE Null

\* the id of the instance the font is checked against (Null: none)
activeInstanceId(font) ==
    LET instanceIds == asStringArray(font.license_instance_ids)
    IN  IF asString(font.active_license_instance_id) # Null
        THEN asString(font.active_license_instance_id)
        ELSE IF Len(instanceIds) > 0 THEN instanceIds[1]
        ELSE Null

\* index in m.license_instances of the font's instance, 0 when it has none
fontInstance(m, font) ==
    IF activeInstanceId(font) # Null
    THEN instancesById(m.license_instances, activeInstanceId(font))
    ELSE 0

fontIdOf(font) == IF asString(font.font_id) # Null THEN asString(font.font_id) ELSE "unknown_font"

\* the BYO findings without the test of source.type
byoReasons_AnySource(m, font) ==
    LET fontId == fontIdOf(font)
        idx == fontInstance(m, font)
    IN  IF idx = 0
        THEN << [code |-> "BYO_NO_LICENSE_INSTANCE", severity |-> "warn",
                 message |-> "BYO font '" \o fontId \o "' has no linked license instance.",
                 context |-> [font_id |-> fontId]] >>
        ELSE IF Len(m.license_instances[idx].evidence) = 0
             THEN << [code |-> "BYO_NO_EVIDENCE", severity |-> "warn",
                      message |-> "BYO font '" \o fontId \o "' has no evidence attached.",
                      context |-> [font_id |-> fontId,
                                   license_id |-> activeInstanceId(font)]] >>
             ELSE <<>>

\* lines 138-159: the BYO findings
byoReasons(m, font) ==
    LET fontId == fontIdOf(font)
        source == asObject(font.source)
        sourceType == IF source = Undefined THEN Null ELSE asString(source.type)
        idx == fontInstance(m, font)
    IN  IF sourceType = "byo"
        THEN IF idx = 0
             THEN << [code |-> "BYO_NO_LICENSE_INSTANCE", severity |-> "warn",
                      message |-> "BYO font '" \o fontId \o "' has no linked license instance.",
                      context |-> [font_id |-> fontId]] >>
             ELSE IF Len(m.license_instances[idx].evidence) = 0
                  THEN << [code |-> "BYO_NO_EVIDENCE", severity |-> "warn",
                           message |-> "BYO font '" \o fontId \o "' has no evidence attached.",
                           context |-> [font_id |-> fontId,
                                        license_id |-> activeInstanceId(font)]] >>
                  ELSE <<>>
        ELSE <<>>

\* evidenceRequired.add only where BYO_NO_EVIDENCE is pushed
byoEvidence_OnlyNoEvidence(m, font) ==
    IF byoReasons(m, font) # <<>> /\ byoReasons(m, font)[1].code = "BYO_NO_EVIDENCE"
    THEN {"license_instances[].evidence[]"}
    ELSE {}

\* lines 146 and 156: the evidence paths the font adds to evidenceRequired
byoEvidence(m, font) ==
    IF byoReasons(m, font) # <<>> THEN {"license_instances[].evidence[]"} ELSE {}

\* lines 165-173
statusReasons(font, instance) ==
    LET status == asString(instance.status)
    IN  IF status # Null /\ status # "active"
        THEN << [code |-> "LICENSE_STATUS_NOT_ACTIVE", severity |-> "escalate",
                 message |-> "License instance '" \o activeInstanceId(font) \o "' is '"
                             \o status \o "', not active.",
                 context |-> [license_id |-> activeInstanceId(font), status |-> status]] >>
        ELSE <<>>

\* lines 175-189: one finding per project domain the scope does not list
RECURSIVE domainLoop(_, _, _)
domainLoop(projectDomains, scopeDomains, licenseId) ==
    IF projectDomains = <<>> THEN <<>>
    ELSE LET domain == Head(projectDomains)
         IN  (IF ~Includes(scopeDomains, domain)
              THEN << [code |-> "DOMAIN_OUT_OF_SCOPE", severity |-> "warn",
                       message |-> "Project domain '" \o domain
                                   \o "' is not covered by license scope for '"
                                   \o licenseId \o "'.",
                       context |-> [license_id |-> licenseId, domain |-> domain]] >>
              ELSE <<>>)
             \o domainLoop(Tail(projectDomains), scopeDomains, licenseId)

\* the domain check without the test that the scope lists a domain
domainReasons_ProjectOnly(m, font, instance) ==
    LET projectDomains == readProjectDomains(m)
        scope == asObject(instance.scope)
        scopeDomains == IF scope = Undefined THEN <<>> ELSE asStringArray(scope.domains)
    IN  IF Len(projectDomains) > 0
        THEN domainLoop(projectDomains, scopeDomains, activeInstanceId(font))
        ELSE <<>>

domainReasons(m, font, instance) ==
    LET projectDomains == readProjectDomains(m)
        scope == asObject(instance.scope)
        scopeDomains == IF scope = Undefined THEN <<>> ELSE asStringArray(scope.domains)
    IN  IF Len(projectDomains) > 0 /\ Len(scopeDomains) > 0
        THEN domainLoop(projectDomains, scopeDomains, activeInstanceId(font))
        ELSE <<>>

\* the offering lookup of the policy engine taking only offerings that have
\* a price formula
resolveOffering_PricedOnly(m, instance) ==
    LET offeringRef == asObject(instance.offering_ref)
        offeringId == IF offeringRef = Undefined THEN Null ELSE asString(offeringRef.offering_id)
        offeringVersion ==
            IF offeringRef = Undefined THEN Null ELSE asString(offeringRef.offering_version)
        found == IF offeringId # Null /\ offeringVersion # Null
                 THEN offeringsByKey(m.license_offerings,
                                     makeOfferingKey(offeringId, offeringVersion))
                 ELSE 0
    IN  IF found # 0 /\ asObject(m.license_offerings[found].price_formula) = Undefined
        THEN 0
        ELSE found

\* lines 191-197: index in m.license_offerings of the offering the instance
\* references, 0 when the reference lacks a field or names no offering
resolveOffering(m, instance) ==
    LET offeringRef == asObject(instance.offering_ref)
        offeringId == IF offeringRef = Undefined THEN Null ELSE asString(offeringRef.offering_id)
        offeringVersion ==
            IF offeringRef = Undefined THEN Null ELSE asString(offeringRef.offering_version)
    IN  IF offeringId # Null /\ offeringVersion # Null
        THEN offeringsByKey(m.license_offerings, makeOfferingKey(offeringId, offeringVersion))
        ELSE 0

\* the offering finding pushed also for a reference that lacks a field
offeringReasons_AnyUnresolved(m, font, instance) ==
    LET offeringRef == asObject(instance.offering_ref)
        offeringId == IF offeringRef = Undefined THEN Null ELSE asString(offeringRef.offering_id)
        offeringVersion ==
            IF offeringRef = Undefined THEN Null ELSE asString(offeringRef.offering_version)
    IN  IF resolveOffering(m, instance) = 0
        THEN << [code |-> "OFFERING_REFERENCE_MISSING", severity |-> "warn",
                 message |-> "Offering '" \o offeringId \o "@" \o offeringVersion
                             \o "' referenced by '" \o activeInstanceId(font)
                             \o "' is missing.",
                 context |-> [license_id |-> activeInstanceId(font),
                              offering_id |-> offeringId,
                              offering_version |-> offeringVersion]] >>
        ELSE <<>>

\* lines 196-206
offeringReasons(m, font, instance) ==
    LET offeringRef == asObject(instance.offering_ref)
        offeringId == IF offeringRef = Undefined THEN Null ELSE asString(offeringRef.offering_id)
        offeringVersion ==
            IF offeringRef = Undefined THEN Null ELSE asString(offeringRef.offering_version)
    IN  IF offeringId # Null /\ offeringVersion # Null /\ resolveOffering(m, instance) = 0
        THEN << [code |-> "OFFERING_REFERENCE_MISSING", severity |-> "warn",
                 message |-> "Offering '" \o offeringId \o "@" \o offeringVersion
                             \o "' referenced by '" \o activeInstanceId(font)
                             \o "' is missing.",
                 context |-> [license_id |-> activeInstanceId(font),
                              offering_id |-> offeringId,
                              offering_version |-> offeringVersion]] >>
        ELSE <<>>

\* lines 214-229
selfHostingReasons(font, rights) ==
    IF isSelfHostingUsage(font.usage)
    THEN LET selfHostingRight == findRight(rights, "distribution_self_hosting")
             cdnHostingRight == findRight(rights, "distribution_cdn_hosting")
             selfHostingAllowed ==
                 selfHostingRight # 0 /\ rights[selfHostingRight].allowed = TRUE
             cdnOnly == /\ cdnHostingRight # 0
                        /\ rights[cdnHostingRight].allowed = TRUE
                        /\ ~selfHostingAllowed
         IN  IF cdnOnly
             THEN << [code |-> "SELF_HOSTING_NOT_ALLOWED", severity |-> "warn",
                      message |-> "Font '" \o fontIdOf(font)
                                  \o "' appears self-hosted but offering allows CDN-only distribution.",
                      context |-> [font_id |-> fontIdOf(font),
                                   license_id |-> activeInstanceId(font)]] >>
             ELSE <<>>
    ELSE <<>>

\* the filter keeping the kinds that are allowed instead of the others
disallowedKindsOf_Allowed(requiredModifications, allowedKinds) ==
    LET Allowed(kind) == Includes(allowedKinds, kind)
    IN  SelectSeq(requiredModifications, Allowed)

\* Array.prototype.filter((kind) => !allowedKinds.includes(kind))
disallowedKindsOf(requiredModifications, allowedKinds) ==
    LET NotAllowed(kind) == ~Includes(allowedKinds, kind)
    IN  SelectSeq(requiredModifications, NotAllowed)

\* lines 231-263
modificationReasons(font, rights) ==
    LET requiredModifications == readRequiredModifications(font.usage)
        modificationRight == findRight(rights, "modification")
    IN  IF Len(requiredModifications) > 0
        THEN IF modificationRight = 0 \/ rights[modificationRight].allowed # TRUE
             THEN << [code |-> "MODIFICATION_NOT_ALLOWED", severity |-> "escalate",
                      message |-> "Font '" \o fontIdOf(font)
                                  \o "' requires modification but offering does not allow it.",
                      context |-> [font_id |-> fontIdOf(font),
                                   license_id |-> activeInstanceId(font),
                                   required |-> requiredModifications]] >>
             ELSE LET allowedKinds ==
                          asStringArray(rights[modificationRight].modification_kinds)
                      disallowedKinds ==
                          disallowedKindsOf(requiredModifications, allowedKinds)
                  IN  IF Len(allowedKinds) > 0 /\ Len(disallowedKinds) > 0
                      THEN << [code |-> "MODIFICATION_KIND_NOT_ALLOWED",
                               severity |-> "escalate",
                               message |-> "Font '" \o fontIdOf(font)
                                           \o "' requires unsupported modification kinds.",
                               context |-> [font_id |-> fontIdOf(font),
                                            license_id |-> activeInstanceId(font),
                                            required |-> requiredModifications,
                                            disallowed |-> disallowedKinds]] >>
                      ELSE <<>>
        ELSE <<>>

\* lines 212-263: the checks against the rights of the resolved offering
rightsReasons(font, offering) ==
    LET rights == normalizeRights(offering.rights)
    IN  selfHostingReasons(font, rights) \o modificationReasons(font, rights)

\* the font loop with a continue after the status finding
fontReasons_InactiveSkipsRights(m, font) ==
    LET idx == fontInstance(m, font)
    IN  byoReasons(m, font)
        \o (IF idx = 0 THEN <<>>
            ELSE LET instance == m.license_instances[idx]
                     off == resolveOffering(m, instance)
                 IN  IF statusReasons(font, instance) # <<>>
                     THEN statusReasons(font, instance)
                     ELSE domainReasons(m, font, instance)
                          \o offeringReasons(m, font, instance)
                          \o (IF off = 0 THEN <<>>
                              ELSE rightsReasons(font, m.license_offerings[off])))

\* the body of the font loop if the status finding ended the domain check
fontReasons_InactiveSkipsDomain(m, font) ==
    LET idx == fontInstance(m, font)
    IN  byoReasons(m, font)
        \o (IF idx = 0 THEN <<>>
            ELSE LET instance == m.license_instances[idx]
                     off == resolveOffering(m, instance)
                 IN  statusReasons(font, instance)
                     \o (IF statusReasons(font, instance) # <<>> THEN <<>>
                         ELSE domainReasons(m, font, instance))
                     \o offeringReasons(m, font, instance)
                     \o (IF off = 0 THEN <<>>
                         ELSE rightsReasons(font, m.license_offerings[off])))

\* lines 129-264: the body of the font loop, the findings it pushes in order
fontReasons(m, font) ==
    LET idx == fontInstance(m, font)
    IN  byoReasons(m, font)
        \o (IF idx = 0 THEN <<>>
            ELSE LET instance == m.license_instances[idx]
                     off == resolveOffering(m, instance)
                 IN  statusReasons(font, instance)
                     \o domainReasons(m, font, instance)
                     \o offeringReasons(m, font, instance)
                     \o (IF off = 0 THEN <<>>
                         ELSE rightsReasons(font, m.license_offerings[off])))

\* the font loop if the findings were listed by severity, escalate first,
\* instead of in the order of the pushes
RECURSIVE fontLoop_BySeverity(_, _)
fontLoop_BySeverity(m, fonts) ==
    IF fonts = <<>> THEN <<>>
    ELSE LET pushed == fontReasons(m, Head(fonts)) \o fontLoop_BySeverity(m, Tail(fonts))
         IN  SelectSeq(pushed, LAMBDA r : r.severity = "escalate")
             \o SelectSeq(pushed, LAMBDA r : r.severity # "escalate")

RECURSIVE fontLoop(_, _)
fontLoop(m, fonts) ==
    IF fonts = <<>> THEN <<>>
    ELSE fontReasons(m, Head(fonts)) \o fontLoop(m, Tail(fonts))

---------------------------------------------------------------------------
(* String.prototype.localeCompare.  The comparison is the collation order  *)
(* of the runtime (ECMA-402): it is total on the strings compared, but it  *)
(* returns 0 for two different strings that are canonically equivalent,    *)
(* such as the one-code-point and the two-code-point spelling of e-acute.  *)
(* CollationOrder lists, in collation order, the classes of the strings    *)
(* the model sorts; "e_acute_nfc" and "e_acute_nfd" stand for the key     *)
(* U+00E9 and the key U+0065 U+0301.                                       *)

LicenseIds == <<"lic_1", "lic_2", "lic_3", "lic_9">>

SkipSuffixes == <<":offering_not_found", ":offering_ref_missing", ":status=expired",
                  ":status=revoked">>

\* each license id, followed by the skipped entries that start with it
IdBlock == 1 + Len(SkipSuffixes)

IdsAndSkipEntries ==
    [n \in 1..(Len(LicenseIds) * IdBlock) |->
        LET id == LicenseIds[((n - 1) \div IdBlock) + 1]
            k == (n - 1) % IdBlock
        IN  IF k = 0 THEN {id} ELSE {id \o SkipSuffixes[k]}]

CollationOrder ==
    << {"a"}, {"amount"}, {"b"}, {"currency"}, {"e_acute_nfc", "e_acute_nfd"}, {"EUR"},
       {"example.com"}, {"example.net"}, {"example.org"},
       {"font_1"}, {"font_2"}, {"font_3"}, {"font_4"}, {"generated_at"} >>
    \o IdsAndSkipEntries
    \o << {"license_id"}, {"license_instances[].evidence[]"}, {"line_items"},
          {"offering_id"}, {"offering_version"}, {"skipped"}, {"totals"}, {"USD"} >>

CollationRank(s) == CHOOSE i \in DOMAIN CollationOrder : s \in CollationOrder[i]

localeCompare(a, b) ==
    IF CollationRank(a) < CollationRank(b) THEN -1
    ELSE IF CollationRank(a) > CollationRank(b) THEN 1
    ELSE 0

\* Array.prototype.sort((a, b) => a.key.localeCompare(b.key)) on entries
\* [key, item]: a stable sort; the result lists the items
RECURSIVE InsertSorted(_, _)
InsertSorted(sorted, e) ==
    IF sorted = <<>> THEN <<e>>
    ELSE IF localeCompare(e.key, Head(sorted).key) < 0 THEN <<e>> \o sorted
    ELSE <<Head(sorted)>> \o InsertSorted(Tail(sorted), e)

RECURSIVE SortKeyed(_)
SortKeyed(seq) ==
    IF seq = <<>> THEN <<>>
    ELSE InsertSorted(SortKeyed(SubSeq(seq, 1, Len(seq) - 1)), seq[Len(seq)])

Items(keyed) == [i \in DOMAIN keyed |-> keyed[i].item]

\* strings.sort((a, b) => a.localeCompare(b))
sortStrings(seq) == Items(SortKeyed([i \in DOMAIN seq |-> [key |-> seq[i], item |-> seq[i]]]))

---------------------------------------------------------------------------
(* policy.js: evaluatePolicy *)

\* evidenceRequired as an array: push instead of Set.prototype.add
SetAdd_Push(seq, elems) ==
    IF elems = {} THEN seq ELSE Append(seq, CHOOSE e \in elems : TRUE)

\* Set.prototype.add, the set kept in insertion order
SetAdd(seq, elems) ==
    IF elems = {} \/ \E i \in DOMAIN seq : seq[i] \in elems THEN seq
    ELSE Append(seq, CHOOSE e \in elems : TRUE)

RECURSIVE evidenceLoop(_, _)
evidenceLoop(m, fonts) ==
    IF fonts = <<>> THEN <<>>
    ELSE SetAdd(evidenceLoop(m, SubSeq(fonts, 1, Len(fonts) - 1)),
                byoEvidence(m, fonts[Len(fonts)]))

evaluatePolicy(m) ==
    LET reasons == fontLoop(m, m.fonts)
    IN  [called |-> TRUE,
         decision |-> makeDecision(reasons),
         reasons |-> reasons,
         evidence_required |-> sortStrings(evidenceLoop(m, m.fonts))]

---------------------------------------------------------------------------
(* Manifests handed to the policy engine *)

EvidencePath == "license_instances[].evidence[]"

Kinds == {"subset", "convert"}

\* the lists of at most n entries drawn from S
RECURSIVE SeqsUpTo(_, _)
SeqsUpTo(S, n) ==
    IF n = 0 THEN {<<>>}
    ELSE SeqsUpTo(S, n - 1) \cup {Append(s, e) : s \in SeqsUpTo(S, n - 1), e \in S}

KindLists == SeqsUpTo(Kinds, MaxKinds)

NoHosting == [kind |-> "undefined", val |-> <<>>]

Usage(selfHosting, hosting, required) ==
    [self_hosting |-> selfHosting, hosting |-> hosting,
     required_modifications |-> required,
     modifications_required |-> <<>>, requiredModificationKinds |-> <<>>]

Usages ==
    {Undefined}
    \cup {Usage(sh, NoHosting, r) : sh \in BOOLEAN, r \in KindLists}
    \cup {Usage(FALSE, [kind |-> "string", val |-> <<"self_hosting">>], <<>>),
          Usage(FALSE, [kind |-> "string", val |-> <<"cdn">>], <<>>),
          Usage(FALSE, [kind |-> "array", val |-> <<"cdn", "self_hosting">>], <<"convert">>),
          [Usage(FALSE, NoHosting, <<>>) EXCEPT !.modifications_required = <<"convert">>],
          [Usage(FALSE, NoHosting, <<"">>) EXCEPT !.requiredModificationKinds = <<"subset">>]}

\* license_instance_ids and active_license_instance_id of a font
Links ==
    { [ids |-> <<>>, active |-> Null],
      [ids |-> <<"lic_1">>, active |-> Null],
      [ids |-> <<"lic_2", "lic_1">>, active |-> "lic_1"],
      [ids |-> <<"lic_9">>, active |-> Null],
      [ids |-> <<"lic_1">>, active |-> "lic_9"] }

Font(id, sourceType, link, usage) ==
    [font_id |-> id, source |-> [type |-> sourceType],
     license_instance_ids |-> link.ids,
     active_license_instance_id |-> link.active,
     usage |-> usage]

Fonts(id) == {Font(id, st, l, u) : st \in {"byo", "oss"}, l \in Links, u \in Usages}

Statuses == {Null, "active", "expired"}

OfferingRefs ==
    { [offering_id |-> "off_1", offering_version |-> "1.0.0"],
      [offering_id |-> "off_1", offering_version |-> "2.0.0"],
      [offering_id |-> "off_1", offering_version |-> Null],
      [offering_id |-> Null, offering_version |-> "1.0.0"],
      Undefined }

Evidence == [evidence_id |-> "ev_1", type |-> "invoice"]

Instance(id, status, evidence, scopeDomains, ref) ==
    [license_id |-> id, status |-> status, evidence |-> evidence,
     scope |-> [scope_type |-> "project", domains |-> scopeDomains],
     offering_ref |-> ref,
     metric_limits |-> <<>>]

Instances(id) ==
    {Instance(id, st, ev, sd, ref) :
        st \in Statuses, ev \in {<<>>, <<Evidence>>},
        sd \in {<<>>, <<"example.com">>}, ref \in OfferingRefs}

Right(type, allowed, kinds) ==
    [right_type |-> type, allowed |-> allowed, modification_kinds |-> kinds]

HostingRights ==
    { <<>>,
      <<Right("distribution_cdn_hosting", TRUE, <<>>)>>,
      <<Right("distribution_cdn_hosting", TRUE, <<>>),
        Right("distribution_self_hosting", FALSE, <<>>)>>,
      <<Right("distribution_cdn_hosting", TRUE, <<>>),
        Right("distribution_self_hosting", TRUE, <<>>)>>,
      <<Right("distribution_cdn_hosting", TRUE, <<>>),
        Right("distribution_self_hosting", FALSE, <<>>),
        Right("distribution_self_hosting", TRUE, <<>>)>>,
      <<Right("distribution_cdn_hosting", FALSE, <<>>),
        Right("distribution_cdn_hosting", TRUE, <<>>)>> }

ModificationRights ==
    {<<>>} \cup {<<Right("modification", FALSE, <<"convert">>)>>}
           \cup {<<Right("modification", TRUE, k)>> : k \in KindLists}

PlainFormula == [currency |-> "EUR", base_price |-> 10000, rules |-> <<>>]

Offering(id, version, rights, formula) ==
    [offering_id |-> id, offering_version |-> version, rights |-> rights,
     price_formula |-> formula]

PolicyOfferings ==
    {Offering("off_1", "1.0.0", h \o r, PlainFormula) :
        h \in HostingRights, r \in ModificationRights}

Manifest(domains, fonts, instances, offerings) ==
    [project |-> [project_id |-> "proj_1", domains |-> domains],
     fonts |-> fonts,
     license_instances |-> instances,
     license_offerings |-> offerings]

ProjectDomains == {<<>>, <<"example.com", "example.org">>}

Ref1 == [offering_id |-> "off_1", offering_version |-> "1.0.0"]

\* the offering of the test fixture: CDN hosting only, modification "subset"
BaseRights ==
    << Right("distribution_cdn_hosting", TRUE, <<>>),
       Right("distribution_self_hosting", FALSE, <<>>),
       Right("modification", TRUE, <<"subset">>) >>

BaseOffering == Offering("off_1", "1.0.0", BaseRights, PlainFormula)

NoModOffering ==
    Offering("off_1", "1.0.0", <<Right("distribution_cdn_hosting", TRUE, <<>>)>>, PlainFormula)

\* one font: how it is linked to an instance, against every instance
LinkManifests(m) ==
    \E d \in ProjectDomains, st \in {"byo", "oss"}, l \in Links,
       u \in {Undefined, Usage(TRUE, NoHosting, <<"convert">>)},
       i \in Instances("lic_1"), o \in {BaseOffering, NoModOffering} :
        m = Manifest(d, <<Font("font_1", st, l, u)>>, <<i>>, <<o>>)

\* one linked font: every usage against every set of rights
RightsManifests(m) ==
    \E st \in {"byo", "oss"}, u \in Usages, status \in Statuses, ref \in OfferingRefs,
       o \in PolicyOfferings :
        m = Manifest(<<>>, <<Font("font_1", st, [ids |-> <<"lic_1">>, active |-> Null], u)>>,
                     <<Instance("lic_1", status, <<Evidence>>, <<>>, ref)>>, <<o>>)

\* several fonts, each of a few kinds, over two instances
FontKinds(id) ==
    { Font(id, "byo", [ids |-> <<>>, active |-> Null], Undefined),
      Font(id, "byo", [ids |-> <<"lic_1">>, active |-> Null], Undefined),
      Font(id, "byo", [ids |-> <<"lic_2">>, active |-> Null], Undefined),
      Font(id, "oss", [ids |-> <<"lic_2">>, active |-> Null],
           Usage(FALSE, NoHosting, <<"convert">>)),
      Font(id, "oss", [ids |-> <<"lic_1">>, active |-> Null],
           Usage(TRUE, NoHosting, <<>>)),
      Font(id, "oss", [ids |-> <<>>, active |-> Null], Undefined) }

FontIds == <<"font_1", "font_2", "font_3", "font_4">>

RECURSIVE FontLists(_)
FontLists(n) ==
    IF n = 0 THEN {<<>>}
    ELSE FontLists(n - 1)
         \cup {Append(fs, f) : fs \in {l \in FontLists(n - 1) : Len(l) = n - 1},
                               f \in FontKinds(FontIds[n])}

MoreInstances ==
    { <<>>,
      <<Instance("lic_2", "expired", <<>>, <<>>, Ref1)>>,
      <<Instance("lic_2", "active", <<Evidence>>, <<"example.com">>,
                 [offering_id |-> "off_9", offering_version |-> "1.0.0"])>> }

FontListManifests(m) ==
    \E d \in ProjectDomains, fs \in FontLists(MaxFonts),
       status \in {"active", "expired"}, ev \in {<<>>, <<Evidence>>},
       sd \in {<<>>, <<"example.com">>}, more \in MoreInstances,
       o \in {BaseOffering, NoModOffering} :
        m = Manifest(d, fs, <<Instance("lic_1", status, ev, sd, Ref1)>> \o more, <<o>>)

\* one font against two instances that differ in status and evidence
ResolutionManifests(m) ==
    \E st \in {"byo", "oss"},
       l \in Links \cup {[ids |-> <<"lic_2", "lic_1">>, active |-> Null],
                         [ids |-> <<"lic_2">>, active |-> "lic_1"],
                         [ids |-> <<>>, active |-> "lic_2"]},
       s1 \in {"active", "expired"}, s2 \in {"active", "revoked"},
       e1 \in {<<>>, <<Evidence>>}, e2 \in {<<>>, <<Evidence>>},
       swap \in BOOLEAN :
        LET one == Instance("lic_1", s1, e1, <<>>, Ref1)
            two == Instance("lic_2", s2, e2, <<>>, Ref1)
        IN  m = Manifest(<<>>, <<Font("font_1", st, l, Undefined)>>,
                         IF swap THEN <<two, one>> ELSE <<one, two>>, <<BaseOffering>>)

DomainNames == {"example.com", "example.net", "example.org"}

\* the scope of an instance: absent, without domains, with an empty string
\* for only domain, with one domain, with two
Scopes ==
    {Undefined}
    \cup {[scope_type |-> "project", domains |-> d] :
             d \in {<<>>, <<"">>, <<"example.com">>, <<"example.org", "example.net">>}}

\* one linked font: every list of project domains against every scope
DomainManifests(m) ==
    \E project \in {Undefined}
                    \cup {[project_id |-> "proj_1", domains |-> d] :
                             d \in SeqsUpTo(DomainNames, MaxDomains) \cup {<<"">>}},
       scope \in Scopes, status \in {"active", "expired"},
       l \in {[ids |-> <<"lic_1">>, active |-> Null], [ids |-> <<"lic_9">>, active |-> Null]} :
        m = [project |-> project,
             fonts |-> <<Font("font_1", "oss", l, Undefined)>>,
             license_instances |->
                 <<[Instance("lic_1", status, <<Evidence>>, <<>>, Ref1) EXCEPT !.scope = scope]>>,
             license_offerings |-> <<BaseOffering>>]

PolicyManifests(m) ==
    \/ LinkManifests(m)
    \/ RightsManifests(m)
    \/ FontListManifests(m)
    \/ ResolutionManifests(m)
    \/ DomainManifests(m)

---------------------------------------------------------------------------
(* The policy command: one call of evaluatePolicy on the manifest *)

\* propertyReadFailures if line 27 read the domains of an absent project
propertyReadFailures_UnguardedProject(m) ==
    {<<"license_instances", k>> : k \in {j \in DOMAIN m.license_instances :
                                            m.license_instances[j] = Undefined}}
    \cup {<<"license_offerings", k>> : k \in {j \in DOMAIN m.license_offerings :
                                                m.license_offerings[j] = Undefined}}
    \cup {<<"fonts", k>> : k \in {j \in DOMAIN m.fonts : m.fonts[j] = Undefined}}
    \cup {<<"project", 0>> : k \in {j \in {0} : m.project = Undefined}}

\* lines 113, 121 and 130 read a property of each entry of
\* license_instances, license_offerings and fonts: a TypeError when the
\* entry is null or undefined.  The places where such an entry stands.
propertyReadFailures(m) ==
    {<<"license_instances", k>> : k \in {j \in DOMAIN m.license_instances :
                                            m.license_instances[j] = Undefined}}
    \cup {<<"license_offerings", k>> : k \in {j \in DOMAIN m.license_offerings :
                                                m.license_offerings[j] = Undefined}}
    \cup {<<"fonts", k>> : k \in {j \in DOMAIN m.fonts : m.fonts[j] = Undefined}}

\* a call of evaluatePolicy: the result, or the error it raises
evaluatePolicyCall(m) ==
    IF propertyReadFailures(m) # {}
    THEN [called |-> TRUE, threw |-> TRUE, error |-> "TypeError"]
    ELSE evaluatePolicy(m)

\* line 269: the one array evaluatePolicy sorts in place, a copy of the set
\* evidenceRequired; projectDomains (line 106) is the other array of strings
\* of the call
policySortTargets == {"Array.from(evidenceRequired)"}

\* the manifest after a call of evaluatePolicy: the call assigns to no
\* property of its input, and array.sort reorders the array it is called on
manifestAfterEvaluatePolicy(m) ==
    IF propertyReadFailures(m) # {} \/ asObject(m.project) = Undefined THEN m
    ELSE [m EXCEPT !.project.domains =
                       IF "project.domains" \in policySortTargets THEN sortStrings(@) ELSE @]

EvaluatePolicy ==
    /\ policy' = evaluatePolicyCall(manifest)
    /\ manifest' = manifestAfterEvaluatePolicy(manifest)
    /\ UNCHANGED <<quotes, clock, value, other, canon, edit>>

InitPolicy ==
    /\ PolicyManifests(manifest)
    /\ policy = NotCalled
    /\ quotes = <<>>
    /\ clock = 0
    /\ value = Undefined
    /\ other = Undefined
    /\ canon = NotCalled
    /\ edit = NotCalled

NextPolicy == EvaluatePolicy

SpecPolicy == InitPolicy /\ [][NextPolicy]_vars

---------------------------------------------------------------------------
(* Properties of the policy engine *)

Severities(reasons) == {reasons[i].severity : i \in DOMAIN reasons}

\* the findings of the result that carry this code and name this font
FindingsFor(reasons, code, fontId) ==
    {i \in DOMAIN reasons :
        /\ reasons[i].code = code
        /\ "font_id" \in DOMAIN reasons[i].context
        /\ reasons[i].context.font_id = fontId}

\* the fonts of the manifest carry pairwise different ids
DistinctFontIds(m) ==
    \A i, j \in DOMAIN m.fonts : i # j => m.fonts[i].font_id # m.fonts[j].font_id

\* C1: the decision is escalate iff some returned reason is escalate, warn
\* iff none is escalate and some is warn, allow iff there is no reason at
\* all; every reason is warn or escalate.
C1_DecisionFollowsSeverity ==
    policy.called =>
        /\ Severities(policy.reasons) \subseteq {"warn", "escalate"}
        /\ (policy.decision = "escalate") <=> ("escalate" \in Severities(policy.reasons))
        /\ (policy.decision = "warn") <=>
               ("escalate" \notin Severities(policy.reasons)
                /\ "warn" \in Severities(policy.reasons))
        /\ (policy.decision = "allow") <=> (policy.reasons = <<>>)

\* an escalate decided over a list that starts with a warn finding
C1_Witness ==
    /\ policy.called
    /\ policy.decision = "escalate"
    /\ Len(policy.reasons) >= 2
    /\ policy.reasons[1].severity = "warn"
    /\ "escalate" \in Severities(policy.reasons)

\* the fonts whose instance resolves and is not active
InactiveFonts(m) ==
    {i \in DOMAIN m.fonts :
        /\ fontInstance(m, m.fonts[i]) # 0
        /\ asString(m.license_instances[fontInstance(m, m.fonts[i])].status)
               \notin {Null, "active"}}

ModificationCodes == {"MODIFICATION_NOT_ALLOWED", "MODIFICATION_KIND_NOT_ALLOWED"}

\* the rights-based escalate findings of the result that name this font
ModificationFindings(reasons, fontId) ==
    SelectSeq(reasons,
              LAMBDA r : r.code \in ModificationCodes /\ r.context.font_id = fontId)

\* C5 as stated: a font whose resolved instance is not active never gets a
\* rights-based escalate finding.
C5_NoRightsEscalateWhenInactive ==
    (policy.called /\ DistinctFontIds(manifest)) =>
        \A i \in InactiveFonts(manifest) :
            ModificationFindings(policy.reasons, manifest.fonts[i].font_id) = <<>>

\* C5 as amended: the font is flagged with LICENSE_STATUS_NOT_ACTIVE, and
\* the rights checks run all the same: its rights-based escalate findings
\* are the ones it gets with the same instance active.
C5_InactiveFlaggedRightsStillChecked ==
    (policy.called /\ DistinctFontIds(manifest)) =>
        \A i \in InactiveFonts(manifest) :
            LET font == manifest.fonts[i]
                idx == fontInstance(manifest, font)
                activated ==
                    [manifest EXCEPT !.license_instances[idx].status = "active"]
            IN  /\ \E k \in DOMAIN policy.reasons :
                       /\ policy.reasons[k].code = "LICENSE_STATUS_NOT_ACTIVE"
                       /\ policy.reasons[k].severity = "escalate"
                       /\ policy.reasons[k].context.license_id = activeInstanceId(font)
                /\ policy.decision = "escalate"
                /\ ModificationFindings(policy.reasons, font.font_id)
                       = ModificationFindings(evaluatePolicy(activated).reasons, font.font_id)

\* an expired instance whose font got a modification finding
C5_Witness ==
    /\ policy.called
    /\ DistinctFontIds(manifest)
    /\ \E i \in InactiveFonts(manifest) :
           ModificationFindings(policy.reasons, manifest.fonts[i].font_id) # <<>>

\* the instance id a font designates: active_license_instance_id when it is
\* there, else the first of license_instance_ids, else none
DesignatedId(font) ==
    IF font.active_license_instance_id \notin {Null, ""}
    THEN font.active_license_instance_id
    ELSE IF \E k \in DOMAIN font.license_instance_ids : font.license_instance_ids[k] # ""
         THEN font.license_instance_ids[
                  CHOOSE k \in DOMAIN font.license_instance_ids :
                      /\ font.license_instance_ids[k] # ""
                      /\ \A j \in 1..(k - 1) : font.license_instance_ids[j] = ""]
         ELSE Null

\* the instances of the manifest that carry the id the font designates
DesignatedInstances(m, font) ==
    {k \in DOMAIN m.license_instances :
        /\ DesignatedId(font) # Null
        /\ m.license_instances[k].license_id = DesignatedId(font)}

IsByo(font) == font.source # Undefined /\ font.source.type = "byo"

\* the findings of the result that name this font, whatever their code
FindingsNaming(reasons, fontId) ==
    {i \in DOMAIN reasons :
        /\ "font_id" \in DOMAIN reasons[i].context
        /\ reasons[i].context.font_id = fontId}

RemoveAt(seq, i) == SubSeq(seq, 1, i - 1) \o SubSeq(seq, i + 1, Len(seq))

\* C7: a BYO font whose instance resolves and has no evidence gets exactly
\* one BYO_NO_EVIDENCE (warn) and the evidence path is required; with only
\* that font's source switched to oss there is no BYO_NO_EVIDENCE for it and
\* evidence_required is what the manifest without that font requires.
C7_EvidenceGating ==
    (policy.called /\ DistinctFontIds(manifest)) =>
        \A i \in DOMAIN manifest.fonts :
            LET font == manifest.fonts[i]
                switched == [manifest EXCEPT !.fonts[i].source.type = "oss"]
                without == [manifest EXCEPT !.fonts = RemoveAt(manifest.fonts, i)]
            IN  (/\ IsByo(font)
                 /\ \E k \in DesignatedInstances(manifest, font) :
                        /\ DesignatedInstances(manifest, font) = {k}
                        /\ manifest.license_instances[k].evidence = <<>>)
                =>
                /\ Cardinality(FindingsFor(policy.reasons, "BYO_NO_EVIDENCE", font.font_id)) = 1
                /\ \A k \in FindingsFor(policy.reasons, "BYO_NO_EVIDENCE", font.font_id) :
                       policy.reasons[k].severity = "warn"
                /\ EvidencePath \in Range(policy.evidence_required)
                /\ FindingsFor(evaluatePolicy(switched).reasons, "BYO_NO_EVIDENCE",
                               font.font_id) = {}
                /\ evaluatePolicy(switched).evidence_required
                       = evaluatePolicy(without).evidence_required

\* a BYO font with a linked, evidence-empty instance was evaluated, and no
\* other font asks for evidence
C7_Witness ==
    /\ policy.called
    /\ Len(manifest.fonts) >= 1
    /\ IsByo(manifest.fonts[1])
    /\ \E k \in DesignatedInstances(manifest, manifest.fonts[1]) :
           manifest.license_instances[k].evidence = <<>>
    /\ policy.evidence_required = <<EvidencePath>>
    /\ evaluatePolicy([manifest EXCEPT !.fonts[1].source.type = "oss"]).evidence_required = <<>>

\* C8: a BYO font that designates no instance of the manifest gets exactly
\* one BYO_NO_LICENSE_INSTANCE (warn), the evidence path is required and the
\* font gets no other finding; no font gets both BYO findings; a non-BYO
\* font that designates no instance gets no finding.
C8_NoInstance ==
    (policy.called /\ DistinctFontIds(manifest)) =>
        \A i \in DOMAIN manifest.fonts :
            LET font == manifest.fonts[i]
                noInstance == FindingsFor(policy.reasons, "BYO_NO_LICENSE_INSTANCE", font.font_id)
                noEvidence == FindingsFor(policy.reasons, "BYO_NO_EVIDENCE", font.font_id)
            IN  /\ (noInstance = {} \/ noEvidence = {})
                /\ (DesignatedInstances(manifest, font) = {} /\ IsByo(font)) =>
                       /\ Cardinality(noInstance) = 1
                       /\ \A k \in noInstance : policy.reasons[k].severity = "warn"
                       /\ FindingsNaming(policy.reasons, font.font_id) = noInstance
                       /\ Len(manifest.fonts) = 1 => Len(policy.reasons) = 1
                       /\ EvidencePath \in Range(policy.evidence_required)
                /\ (DesignatedInstances(manifest, font) = {} /\ ~IsByo(font)) =>
                       /\ FindingsNaming(policy.reasons, font.font_id) = {}
                       /\ Len(manifest.fonts) = 1 =>
                              (policy.reasons = <<>> /\ policy.evidence_required = <<>>)

\* a BYO font whose designated id names no instance, in a manifest that has
\* instances
C8_Witness ==
    /\ policy.called
    /\ Len(manifest.fonts) = 1
    /\ IsByo(manifest.fonts[1])
    /\ DesignatedId(manifest.fonts[1]) # Null
    /\ DesignatedInstances(manifest, manifest.fonts[1]) = {}
    /\ manifest.license_instances # <<>>
    /\ Len(policy.reasons) = 1
    /\ policy.reasons[1].code = "BYO_NO_LICENSE_INSTANCE"

\* the fonts that require modification kinds and whose offering resolves
FontsRequiringModification(m) ==
    {i \in DOMAIN m.fonts :
        /\ readRequiredModifications(m.fonts[i].usage) # <<>>
        /\ fontInstance(m, m.fonts[i]) # 0
        /\ resolveOffering(m, m.license_instances[fontInstance(m, m.fonts[i])]) # 0}

\* the allowed modification right of the offering a font resolves to (0: none)
OfferingOf(m, font) ==
    m.license_offerings[resolveOffering(m, m.license_instances[fontInstance(m, font)])]

\* C9: with required kinds and a resolved offering: no allowed modification
\* right gives MODIFICATION_NOT_ALLOWED alone; an allowed right with a
\* non-empty kind list that misses a required kind gives
\* MODIFICATION_KIND_NOT_ALLOWED whose context.disallowed lists the required
\* kinds outside the list, in required order; otherwise neither.
C9_ModificationGating ==
    (policy.called /\ DistinctFontIds(manifest)) =>
        \A i \in FontsRequiringModification(manifest) :
            LET font == manifest.fonts[i]
                required == readRequiredModifications(font.usage)
                rights == OfferingOf(manifest, font).rights
                granted == {k \in DOMAIN rights : rights[k].right_type = "modification"}
                first == IF granted = {} THEN 0
                         ELSE CHOOSE k \in granted : \A j \in granted : k <= j
                kinds == IF first = 0 THEN {}
                         ELSE Range(rights[first].modification_kinds) \ {""}
                missing == SelectSeq(required, LAMBDA kind : kind \notin kinds)
                notAllowed == FindingsFor(policy.reasons, "MODIFICATION_NOT_ALLOWED", font.font_id)
                kindNotAllowed ==
                    FindingsFor(policy.reasons, "MODIFICATION_KIND_NOT_ALLOWED", font.font_id)
            IN  IF first = 0 \/ rights[first].allowed # TRUE
                THEN /\ Cardinality(notAllowed) = 1
                     /\ \A k \in notAllowed : policy.reasons[k].severity = "escalate"
                     /\ kindNotAllowed = {}
                ELSE IF kinds # {} /\ missing # <<>>
                THEN /\ Cardinality(kindNotAllowed) = 1
                     /\ \A k \in kindNotAllowed :
                            /\ policy.reasons[k].severity = "escalate"
                            /\ policy.reasons[k].context.disallowed = missing
                     /\ notAllowed = {}
                ELSE notAllowed = {} /\ kindNotAllowed = {}

\* two kinds required, one of them outside the allowed list
C9_Witness ==
    /\ policy.called
    /\ \E k \in DOMAIN policy.reasons :
           /\ policy.reasons[k].code = "MODIFICATION_KIND_NOT_ALLOWED"
           /\ Len(policy.reasons[k].context.required) = 2
           /\ Len(policy.reasons[k].context.disallowed) = 1

---------------------------------------------------------------------------
(* core: canonicalize, canonicalStringify, sha256Hex, roundMoney.          *)
(* A JSON value is a record tagged by its type; an object lists its        *)
(* entries [key, value] in insertion order, which is the order             *)
(* Object.keys and JSON.stringify enumerate them in.                       *)

JString(s) == [t |-> "string", s |-> s]
JNumber(n) == [t |-> "number", n |-> n]
JArray(items) == [t |-> "array", items |-> items]
JObject(entries) == [t |-> "object", entries |-> entries]
JNull == [t |-> "null"]

isPlainObject(v) == v.t = "object"

RECURSIVE canonicalize(_)
canonicalize(v) ==
    IF v.t = "array"
    THEN JArray([i \in DOMAIN v.items |-> canonicalize(v.items[i])])
    ELSE IF ~isPlainObject(v) THEN v
    ELSE LET keys == [i \in DOMAIN v.entries |->
                         [key |-> v.entries[i].key, item |-> v.entries[i]]]
             sortedEntries == Items(SortKeyed(keys))
         IN  JObject([i \in DOMAIN sortedEntries |->
                         [key |-> sortedEntries[i].key,
                          value |-> canonicalize(sortedEntries[i].value)]])

\* Numbers are decimal fractions counted in thousandths: 170 is 170000.
Scale == 1000

\* the digits of a fraction of 0..999 thousandths, without trailing zeros
FractionDigits(r) ==
    IF r % 100 = 0 THEN ToString(r \div 100)
    ELSE IF r % 10 = 0
         THEN ToString(r \div 100) \o ToString((r \div 10) % 10)
    ELSE ToString(r \div 100) \o ToString((r \div 10) % 10) \o ToString(r % 10)

\* JSON.stringify of a number
NumberToJson(n) ==
    LET a == IF n < 0 THEN 0 - n ELSE n
        whole == ToString(a \div Scale)
        text == IF a % Scale = 0 THEN whole ELSE whole \o "." \o FractionDigits(a % Scale)
    IN  IF n < 0 THEN "-" \o text ELSE text

Quoted(s) == "\"" \o s \o "\""

RECURSIVE Join(_)
Join(strs) ==
    IF strs = <<>> THEN ""
    ELSE IF Len(strs) = 1 THEN strs[1]
    ELSE strs[1] \o "," \o Join(Tail(strs))

\* JSON.stringify
RECURSIVE JSONstringify(_)
JSONstringify(v) ==
    IF v.t = "string" THEN Quoted(v.s)
    ELSE IF v.t = "number" THEN NumberToJson(v.n)
    ELSE IF v.t = "null" THEN "null"
    ELSE IF v.t = "array"
         THEN "[" \o Join([i \in DOMAIN v.items |-> JSONstringify(v.items[i])]) \o "]"
    ELSE "{" \o Join([i \in DOMAIN v.entries |->
                        Quoted(v.entries[i].key) \o ":" \o JSONstringify(v.entries[i].value)])
         \o "}"

canonicalStringify(v) == JSONstringify(canonicalize(v))

\* SHA-256 as a function of the hashed text: equal texts give equal digests,
\* different texts different digests
sha256Hex(text) == [sha256 |-> text]

\* Math.round((value + Number.EPSILON) * 100) / 100 on a value counted in
\* millionths (a product of two numbers in thousandths); the result is in
\* thousandths. Math.round rounds a half up. The value is taken as the
\* exact decimal: the representation error of a binary double, which
\* Number.EPSILON is there to absorb, is not modelled.
roundMoney(millionths) == ((millionths + 5000) \div 10000) * 10

---------------------------------------------------------------------------
(* quote.js *)

NoNumber == -999999999

asNumber(v) == IF v = NoNumber THEN NoNumber ELSE v

\* lines 23-29: the entries that are objects (a missing array is <<>>)
asMetricLimits(v) == SelectSeq(v, LAMBDA entry : entry # Undefined)

\* the candidate limit satisfies every bound the clause has
satisfiesBounds(when, candidate) ==
    LET v == asNumber(candidate.limit)
        gte == asNumber(when.gte)
        gt == asNumber(when.gt)
        lte == asNumber(when.lte)
        lt == asNumber(when.lt)
        eq == asNumber(when.eq)
    IN  IF v = NoNumber THEN FALSE
        ELSE IF gte # NoNumber /\ v < gte THEN FALSE
        ELSE IF gt # NoNumber /\ v <= gt THEN FALSE
        ELSE IF lte # NoNumber /\ v > lte THEN FALSE
        ELSE IF lt # NoNumber /\ v >= lt THEN FALSE
        ELSE IF eq # NoNumber /\ v # eq THEN FALSE
        ELSE TRUE

\* the limit passes the clause's metric_type / period filter
passesFilter(when, limit) ==
    LET metricType == asString(when.metric_type)
        period == asString(when.period)
    IN  IF metricType # Null /\ asString(limit.metric_type) # metricType THEN FALSE
        ELSE IF period # Null /\ asString(limit.period) # period THEN FALSE
        ELSE TRUE

\* matchesWhen without the return of lines 50-52: a filter no limit passes
\* lets the clause match
matchesWhen_EmptyFilterMatches(when, instance) ==
    LET Passes(limit) == passesFilter(when, limit)
        limits == SelectSeq(asMetricLimits(instance.metric_limits), Passes)
        candidates == IF Len(limits) > 0 THEN limits
                      ELSE asMetricLimits(instance.metric_limits)
    IN  IF /\ asNumber(when.gte) = NoNumber /\ asNumber(when.gt) = NoNumber
           /\ asNumber(when.lte) = NoNumber /\ asNumber(when.lt) = NoNumber
           /\ asNumber(when.eq) = NoNumber
        THEN TRUE
        ELSE \E i \in DOMAIN candidates : satisfiesBounds(when, candidates[i])

\* matchesWhen with each bound tested on its own: every bound is met by
\* some candidate, not all bounds by one candidate
matchesWhen_BoundByBound(when, instance) ==
    LET metricType == asString(when.metric_type)
        period == asString(when.period)
        Passes(limit) == passesFilter(when, limit)
        limits == SelectSeq(asMetricLimits(instance.metric_limits), Passes)
        candidates == IF Len(limits) > 0 THEN limits
                      ELSE asMetricLimits(instance.metric_limits)
        Only(field) == [gte |-> IF field = "gte" THEN when.gte ELSE NoNumber,
                        gt |-> IF field = "gt" THEN when.gt ELSE NoNumber,
                        lte |-> IF field = "lte" THEN when.lte ELSE NoNumber,
                        lt |-> IF field = "lt" THEN when.lt ELSE NoNumber,
                        eq |-> IF field = "eq" THEN when.eq ELSE NoNumber]
    IN  IF (metricType # Null \/ period # Null) /\ Len(limits) = 0 THEN FALSE
        ELSE IF /\ asNumber(when.gte) = NoNumber /\ asNumber(when.gt) = NoNumber
                /\ asNumber(when.lte) = NoNumber /\ asNumber(when.lt) = NoNumber
                /\ asNumber(when.eq) = NoNumber
             THEN TRUE
        ELSE \A field \in {"gte", "gt", "lte", "lt", "eq"} :
                 \E i \in DOMAIN candidates : satisfiesBounds(Only(field), candidates[i])

matchesWhen(when, instance) ==
    LET metricType == asString(when.metric_type)
        period == asString(when.period)
        Passes(limit) == passesFilter(when, limit)
        limits == SelectSeq(asMetricLimits(instance.metric_limits), Passes)
        candidates == IF Len(limits) > 0 THEN limits
                      ELSE asMetricLimits(instance.metric_limits)
    IN  IF (metricType # Null \/ period # Null) /\ Len(limits) = 0 THEN FALSE
        ELSE IF /\ asNumber(when.gte) = NoNumber /\ asNumber(when.gt) = NoNumber
                /\ asNumber(when.lte) = NoNumber /\ asNumber(when.lt) = NoNumber
                /\ asNumber(when.eq) = NoNumber
             THEN TRUE
        ELSE \E i \in DOMAIN candidates : satisfiesBounds(when, candidates[i])

\* applyRule with the addend taken before the multiplication
applyRule_AddFirst(amount, rule) ==
    LET multiplier == IF asNumber(rule.multiplier) # NoNumber
                      THEN asNumber(rule.multiplier) ELSE Scale
        add == IF asNumber(rule.add) # NoNumber THEN asNumber(rule.add) ELSE 0
    IN  roundMoney((amount + add) * multiplier)

\* lines 128-131: the amount after one rule that applies
applyRule(amount, rule) ==
    LET multiplier == IF asNumber(rule.multiplier) # NoNumber
                      THEN asNumber(rule.multiplier) ELSE Scale
        add == IF asNumber(rule.add) # NoNumber THEN asNumber(rule.add) ELSE 0
    IN  roundMoney(amount * multiplier + add * Scale)

\* lines 121-132: the loop over the rules
RECURSIVE ruleLoop(_, _, _)
ruleLoop(amount, rules, instance) ==
    IF rules = <<>> THEN amount
    ELSE LET rule == Head(rules)
             when == asObject(rule.when)
         IN  IF when # Undefined /\ ~matchesWhen(when, instance)
             THEN ruleLoop(amount, Tail(rules), instance)
             ELSE ruleLoop(applyRule(amount, rule), Tail(rules), instance)

evaluateAmountForInstance(instance, offering) ==
    LET priceFormula == asObject(offering.price_formula)
    IN  IF priceFormula = Undefined
        THEN [threw |-> TRUE, error |-> "price_formula missing for offering."]
        ELSE LET currency == asString(priceFormula.currency)
                 basePrice == asNumber(priceFormula.base_price)
             IN  IF currency = Null \/ basePrice = NoNumber
                 THEN [threw |-> TRUE,
                       error |-> "price_formula must include currency and base_price."]
                 ELSE [threw |-> FALSE,
                       currency |-> currency,
                       amount |-> roundMoney(
                           ruleLoop(basePrice, priceFormula.rules, instance) * Scale)]

\* instanceOutcome without the status check of lines 164-168
instanceOutcome_NoStatusSkip(offerings, instance) ==
    LET licenseId == asString(instance.license_id)
        offeringRef == asObject(instance.offering_ref)
        offeringId == IF offeringRef = Undefined THEN Null ELSE asString(offeringRef.offering_id)
        offeringVersion ==
            IF offeringRef = Undefined THEN Null ELSE asString(offeringRef.offering_version)
        offering == IF offeringId = Null \/ offeringVersion = Null THEN 0
                    ELSE offeringsByKey(offerings, makeOfferingKey(offeringId, offeringVersion))
    IN  IF licenseId = Null THEN [kind |-> "none"]
        ELSE IF offeringId = Null \/ offeringVersion = Null
             THEN [kind |-> "skipped", entry |-> licenseId \o ":offering_ref_missing"]
        ELSE IF offering = 0
             THEN [kind |-> "skipped", entry |-> licenseId \o ":offering_not_found"]
        ELSE LET evaluated == evaluateAmountForInstance(instance, offerings[offering])
             IN  IF evaluated.threw
                 THEN [kind |-> "throw", error |-> evaluated.error]
                 ELSE [kind |-> "line_item",
                       item |-> [license_id |-> licenseId,
                                 offering_id |-> offeringId,
                                 offering_version |-> offeringVersion,
                                 currency |-> evaluated.currency,
                                 amount |-> evaluated.amount]]

\* instanceOutcome failing over an offering_ref that names no offering
instanceOutcome_MissingOfferingThrows(offerings, instance) ==
    LET licenseId == asString(instance.license_id)
        status == asString(instance.status)
        offeringRef == asObject(instance.offering_ref)
        offeringId == IF offeringRef = Undefined THEN Null ELSE asString(offeringRef.offering_id)
        offeringVersion ==
            IF offeringRef = Undefined THEN Null ELSE asString(offeringRef.offering_version)
        offering == IF offeringId = Null \/ offeringVersion = Null THEN 0
                    ELSE offeringsByKey(offerings, makeOfferingKey(offeringId, offeringVersion))
    IN  IF licenseId = Null THEN [kind |-> "none"]
        ELSE IF status # Null /\ status # "active"
             THEN [kind |-> "skipped", entry |-> licenseId \o ":status=" \o status]
        ELSE IF offeringId = Null \/ offeringVersion = Null
             THEN [kind |-> "skipped", entry |-> licenseId \o ":offering_ref_missing"]
        ELSE IF offering = 0
             THEN [kind |-> "throw", error |-> "offering not found."]
        ELSE LET evaluated == evaluateAmountForInstance(instance, offerings[offering])
             IN  IF evaluated.threw
                 THEN [kind |-> "throw", error |-> evaluated.error]
                 ELSE [kind |-> "line_item",
                       item |-> [license_id |-> licenseId,
                                 offering_id |-> offeringId,
                                 offering_version |-> offeringVersion,
                                 currency |-> evaluated.currency,
                                 amount |-> evaluated.amount]]

\* instanceOutcome with the check of the offering_ref before that of the
\* status
instanceOutcome_RefBeforeStatus(offerings, instance) ==
    LET licenseId == asString(instance.license_id)
        status == asString(instance.status)
        offeringRef == asObject(instance.offering_ref)
        offeringId == IF offeringRef = Undefined THEN Null ELSE asString(offeringRef.offering_id)
        offeringVersion ==
            IF offeringRef = Undefined THEN Null ELSE asString(offeringRef.offering_version)
        offering == IF offeringId = Null \/ offeringVersion = Null THEN 0
                    ELSE offeringsByKey(offerings, makeOfferingKey(offeringId, offeringVersion))
    IN  IF licenseId = Null THEN [kind |-> "none"]
        ELSE IF offeringId = Null \/ offeringVersion = Null
             THEN [kind |-> "skipped", entry |-> licenseId \o ":offering_ref_missing"]
        ELSE IF status # Null /\ status # "active"
             THEN [kind |-> "skipped", entry |-> licenseId \o ":status=" \o status]
        ELSE IF offering = 0
             THEN [kind |-> "skipped", entry |-> licenseId \o ":offering_not_found"]
        ELSE LET evaluated == evaluateAmountForInstance(instance, offerings[offering])
             IN  IF evaluated.threw
                 THEN [kind |-> "throw", error |-> evaluated.error]
                 ELSE [kind |-> "line_item",
                       item |-> [license_id |-> licenseId,
                                 offering_id |-> offeringId,
                                 offering_version |-> offeringVersion,
                                 currency |-> evaluated.currency,
                                 amount |-> evaluated.amount]]

\* instanceOutcome pricing the referenced offering before the status check
instanceOutcome_PricesBeforeStatus(offerings, instance) ==
    LET licenseId == asString(instance.license_id)
        status == asString(instance.status)
        offeringRef == asObject(instance.offering_ref)
        offeringId == IF offeringRef = Undefined THEN Null ELSE asString(offeringRef.offering_id)
        offeringVersion ==
            IF offeringRef = Undefined THEN Null ELSE asString(offeringRef.offering_version)
        offering == IF offeringId = Null \/ offeringVersion = Null THEN 0
                    ELSE offeringsByKey(offerings, makeOfferingKey(offeringId, offeringVersion))
    IN  IF licenseId = Null THEN [kind |-> "none"]
        ELSE IF offering # 0 /\ evaluateAmountForInstance(instance, offerings[offering]).threw
             THEN [kind |-> "throw",
                   error |-> evaluateAmountForInstance(instance, offerings[offering]).error]
        ELSE IF status # Null /\ status # "active"
             THEN [kind |-> "skipped", entry |-> licenseId \o ":status=" \o status]
        ELSE IF offeringId = Null \/ offeringVersion = Null
             THEN [kind |-> "skipped", entry |-> licenseId \o ":offering_ref_missing"]
        ELSE IF offering = 0
             THEN [kind |-> "skipped", entry |-> licenseId \o ":offering_not_found"]
        ELSE LET evaluated == evaluateAmountForInstance(instance, offerings[offering])
             IN  [kind |-> "line_item",
                  item |-> [license_id |-> licenseId,
                            offering_id |-> offeringId,
                            offering_version |-> offeringVersion,
                            currency |-> evaluated.currency,
                            amount |-> evaluated.amount]]

\* lines 158-194: the outcome of one instance in the loop of generateQuote:
\* nothing (no license_id), a skipped entry, a line item, or a throw
instanceOutcome(offerings, instance) ==
    LET licenseId == asString(instance.license_id)
        status == asString(instance.status)
        offeringRef == asObject(instance.offering_ref)
        offeringId == IF offeringRef = Undefined THEN Null ELSE asString(offeringRef.offering_id)
        offeringVersion ==
            IF offeringRef = Undefined THEN Null ELSE asString(offeringRef.offering_version)
        offering == IF offeringId = Null \/ offeringVersion = Null THEN 0
                    ELSE offeringsByKey(offerings, makeOfferingKey(offeringId, offeringVersion))
    IN  IF licenseId = Null THEN [kind |-> "none"]
        ELSE IF status # Null /\ status # "active"
             THEN [kind |-> "skipped", entry |-> licenseId \o ":status=" \o status]
        ELSE IF offeringId = Null \/ offeringVersion = Null
             THEN [kind |-> "skipped", entry |-> licenseId \o ":offering_ref_missing"]
        ELSE IF offering = 0
             THEN [kind |-> "skipped", entry |-> licenseId \o ":offering_not_found"]
        ELSE LET evaluated == evaluateAmountForInstance(instance, offerings[offering])
             IN  IF evaluated.threw
                 THEN [kind |-> "throw", error |-> evaluated.error]
                 ELSE [kind |-> "line_item",
                       item |-> [license_id |-> licenseId,
                                 offering_id |-> offeringId,
                                 offering_version |-> offeringVersion,
                                 currency |-> evaluated.currency,
                                 amount |-> evaluated.amount]]

\* lines 155-194: the loop over the instances; a throw ends it
RECURSIVE instanceLoop(_, _, _)
instanceLoop(offerings, instances, acc) ==
    IF instances = <<>> THEN acc
    ELSE LET outcome == instanceOutcome(offerings, Head(instances))
         IN  IF outcome.kind = "throw"
             THEN [threw |-> TRUE, error |-> outcome.error]
             ELSE instanceLoop(offerings, Tail(instances),
                      IF outcome.kind = "skipped"
                      THEN [acc EXCEPT !.skipped = Append(@, outcome.entry)]
                      ELSE IF outcome.kind = "line_item"
                      THEN [acc EXCEPT !.lineItems = Append(@, outcome.item)]
                      ELSE acc)

\* the line items left in the order of the instances
sortLineItems_Unsorted(lineItems) == lineItems

\* line 196
sortLineItems(lineItems) ==
    Items(SortKeyed([i \in DOMAIN lineItems |->
                        [key |-> lineItems[i].license_id, item |-> lineItems[i]]]))

\* lines 198-202: totals, an object keyed by currency, entries in the order
\* the currencies first occur
RECURSIVE totalsLoop(_, _)
totalsLoop(totals, lineItems) ==
    IF lineItems = <<>> THEN totals
    ELSE LET lineItem == Head(lineItems)
             at == {i \in DOMAIN totals : totals[i].key = lineItem.currency}
             previous == IF at = {} THEN 0 ELSE totals[CHOOSE i \in at : TRUE].value
             sum == roundMoney((previous + lineItem.amount) * Scale)
         IN  totalsLoop(
                 IF at = {} THEN Append(totals, [key |-> lineItem.currency, value |-> sum])
                 ELSE [i \in DOMAIN totals |->
                          IF i \in at THEN [key |-> totals[i].key, value |-> sum]
                          ELSE totals[i]],
                 Tail(lineItems))

\* the JSON value of a line item, keys in the order of the object literal
lineItemJson(lineItem) ==
    JObject(<< [key |-> "license_id", value |-> JString(lineItem.license_id)],
               [key |-> "offering_id", value |-> JString(lineItem.offering_id)],
               [key |-> "offering_version", value |-> JString(lineItem.offering_version)],
               [key |-> "currency", value |-> JString(lineItem.currency)],
               [key |-> "amount", value |-> JNumber(lineItem.amount)] >>)

\* lines 206-210
fingerprintTarget(totals, lineItems, skipped) ==
    JObject(<< [key |-> "totals",
                value |-> JObject([i \in DOMAIN totals |->
                              [key |-> totals[i].key, value |-> JNumber(totals[i].value)]])],
               [key |-> "line_items",
                value |-> JArray([i \in DOMAIN lineItems |-> lineItemJson(lineItems[i])])],
               [key |-> "skipped",
                value |-> JArray([i \in DOMAIN skipped |-> JString(skipped[i])])] >>)

\* generateQuote with the timestamp inside the hashed value
generateQuote_TimestampInHash(m, now) ==
    LET looped == instanceLoop(m.license_offerings, m.license_instances,
                               [threw |-> FALSE, lineItems |-> <<>>, skipped |-> <<>>])
    IN  IF looped.threw THEN looped
        ELSE LET lineItems == sortLineItems(looped.lineItems)
                 totals == totalsLoop(<<>>, lineItems)
                 skipped == sortStrings(looped.skipped)
             IN  [threw |-> FALSE,
                  generated_at |-> now,
                  totals |-> totals,
                  line_items |-> lineItems,
                  skipped |-> skipped,
                  deterministic_hash |->
                      sha256Hex(canonicalStringify(
                          JObject(<<[key |-> "generated_at", value |-> JNumber(now * Scale)]>>
                                  \o fingerprintTarget(totals, lineItems, skipped).entries)))]

\* generateQuote without the sort of line 204: skipped in the order of the
\* instances
generateQuote_SkippedUnsorted(m, now) ==
    LET looped == instanceLoop(m.license_offerings, m.license_instances,
                               [threw |-> FALSE, lineItems |-> <<>>, skipped |-> <<>>])
    IN  IF looped.threw THEN looped
        ELSE LET lineItems == sortLineItems(looped.lineItems)
                 totals == totalsLoop(<<>>, lineItems)
                 skipped == looped.skipped
             IN  [threw |-> FALSE,
                  generated_at |-> now,
                  totals |-> totals,
                  line_items |-> lineItems,
                  skipped |-> skipped,
                  deterministic_hash |->
                      sha256Hex(canonicalStringify(
                          fingerprintTarget(totals, lineItems, skipped)))]

\* generateQuote called while nowIso() reads `now`
generateQuote(m, now) ==
    LET looped == instanceLoop(m.license_offerings, m.license_instances,
                               [threw |-> FALSE, lineItems |-> <<>>, skipped |-> <<>>])
    IN  IF looped.threw THEN looped
        ELSE LET lineItems == sortLineItems(looped.lineItems)
                 totals == totalsLoop(<<>>, lineItems)
                 skipped == sortStrings(looped.skipped)
             IN  [threw |-> FALSE,
                  generated_at |-> now,
                  totals |-> totals,
                  line_items |-> lineItems,
                  skipped |-> skipped,
                  deterministic_hash |->
                      sha256Hex(canonicalStringify(
                          fingerprintTarget(totals, lineItems, skipped)))]

---------------------------------------------------------------------------
(* Manifests handed to the quote engine *)

When(metricType, period, gte, lte, lt) ==
    [metric_type |-> metricType, period |-> period,
     gte |-> gte, gt |-> NoNumber, lte |-> lte, lt |-> lt, eq |-> NoNumber]

SeatsWhen == When("seats", "per_year", 10 * Scale, NoNumber, NoNumber)
UsersWhen == When("users", Null, NoNumber, NoNumber, NoNumber)
RangeWhen == When(Null, Null, 10 * Scale, 15 * Scale, NoNumber)
EmptyWhen == When(Null, Null, NoNumber, NoNumber, NoNumber)

Rule(when, multiplier, add) == [when |-> when, multiplier |-> multiplier, add |-> add]

\* multiplier 1.5 and add 20 (the test fixture), multiplier 1.3 alone, add
\* -0.004 alone; without when clause, and with when clauses on a metric, on
\* a range and on nothing
Rules ==
    { Rule(Undefined, 1500, 20 * Scale),
      Rule(SeatsWhen, 1500, 20 * Scale),
      Rule(EmptyWhen, 1300, NoNumber),
      Rule(UsersWhen, 1300, NoNumber),
      Rule(RangeWhen, 1300, NoNumber),
      Rule(RangeWhen, NoNumber, 0 - 4),
      Rule(SeatsWhen, NoNumber, 0 - 4) }

RuleLists == SeqsUpTo(Rules, MaxRules)

\* base prices 100 and 10.02
BasePrices == {100 * Scale, 10020}

Limit(metricType, period, limit) ==
    [metric_type |-> metricType, period |-> period, limit |-> limit]

MetricLimitLists ==
    { <<>>,
      <<Limit("seats", "per_year", 20 * Scale)>>,
      <<Limit("seats", "per_year", 5 * Scale), Limit("users", "per_month", 12 * Scale)>> }

QuoteRights == <<Right("media_web", TRUE, <<>>)>>

QuoteInstance(id, status, ref, limits) ==
    [license_id |-> id, status |-> status, evidence |-> <<Evidence>>,
     scope |-> [scope_type |-> "project", domains |-> <<>>],
     offering_ref |-> ref,
     metric_limits |-> limits]

\* one active instance priced by every formula
PricingManifests(m) ==
    \E base \in BasePrices, rules \in RuleLists, limits \in MetricLimitLists :
        m = Manifest(<<>>, <<>>,
                     <<QuoteInstance("lic_1", "active", Ref1, limits)>>,
                     <<Offering("off_1", "1.0.0", QuoteRights,
                                [currency |-> "EUR", base_price |-> base, rules |-> rules])>>)

Ref2 == [offering_id |-> "off_1", offering_version |-> "2.0.0"]

QuoteInstances ==
    {QuoteInstance(id, status, ref, <<Limit("seats", "per_year", 20 * Scale)>>) :
        id \in {"lic_1", "lic_2"}, status \in Statuses,
        ref \in {Ref1, Ref2, [offering_id |-> "off_1", offering_version |-> Null]}}
    \cup {QuoteInstance(Null, "active", Ref1, <<>>)}

TestFormula ==
    [currency |-> "EUR", base_price |-> 100 * Scale,
     rules |-> <<Rule(SeatsWhen, 1500, 20 * Scale)>>]

UsdFormula == [currency |-> "USD", base_price |-> 49990, rules |-> <<>>]

\* a base price of -10
NegativeFormula == [currency |-> "EUR", base_price |-> 0 - 10 * Scale, rules |-> <<>>]

\* the offerings of a manifest: the test fixture alone, with a second
\* version priced in USD, with a second version priced in EUR, or with a
\* first version whose price formula is missing, lacks its currency, has a
\* base price that is no number, or has a negative base price
OfferingLists ==
    { <<Offering("off_1", "1.0.0", QuoteRights, TestFormula)>>,
      <<Offering("off_1", "1.0.0", QuoteRights, TestFormula),
        Offering("off_1", "2.0.0", QuoteRights, UsdFormula)>>,
      <<Offering("off_1", "2.0.0", QuoteRights, PlainFormula),
        Offering("off_1", "1.0.0", QuoteRights, TestFormula)>>,
      <<Offering("off_1", "1.0.0", QuoteRights, Undefined),
        Offering("off_1", "2.0.0", QuoteRights, UsdFormula)>>,
      <<Offering("off_1", "1.0.0", QuoteRights,
                 [currency |-> Null, base_price |-> 100 * Scale, rules |-> <<>>])>>,
      <<Offering("off_1", "1.0.0", QuoteRights,
                 [currency |-> "EUR", base_price |-> NoNumber, rules |-> <<>>])>>,
      <<Offering("off_1", "1.0.0", QuoteRights, NegativeFormula),
        Offering("off_1", "2.0.0", QuoteRights, UsdFormula)>> }

\* the instances that stand beside the one under study
Companions ==
    { QuoteInstance("lic_1", "active", Ref1, <<>>),
      QuoteInstance("lic_2", "active", Ref1, <<Limit("seats", "per_year", 20 * Scale)>>),
      QuoteInstance("lic_2", "active", Ref2, <<>>),
      QuoteInstance("lic_1", "expired", Ref1, <<>>) }

\* up to MaxInstances instances: one of any status and reference, before or
\* after its companions
InstanceListManifests(m) ==
    \E subject \in QuoteInstances, companions \in SeqsUpTo(Companions, MaxInstances - 1),
       offerings \in OfferingLists :
        \/ m = Manifest(<<>>, <<>>, <<subject>> \o companions, offerings)
        \/ m = Manifest(<<>>, <<>>, companions \o <<subject>>, offerings)
        \/ m = Manifest(<<>>, <<>>, <<>>, offerings)

QuoteManifests(m) == PricingManifests(m) \/ InstanceListManifests(m)

---------------------------------------------------------------------------
(* The quote command: one call of generateQuote on the manifest.  The wall *)
(* clock does not run backwards between calls.                             *)

\* quoteSortTargets if line 196 sorted the instances of the manifest
quoteSortTargets_Instances == {"instances", "skipped"}

\* lines 196 and 204: the arrays generateQuote sorts in place, both built by
\* the call (lines 155-156); instances (line 142) is the array of the
\* manifest whose entries carry a license_id
quoteSortTargets == {"lineItems", "skipped"}

\* the manifest after a call of generateQuote: the call assigns to no
\* property of its input, and array.sort reorders the array it is called
\* on; a call that fails ends before the sorts
manifestAfterGenerateQuote(m) ==
    IF "instances" \notin quoteSortTargets THEN m
    ELSE IF generateQuote(m, 0).threw THEN m
    ELSE [m EXCEPT !.license_instances =
                       Items(SortKeyed([i \in DOMAIN @ |->
                           [key |-> @[i].license_id, item |-> @[i]]]))]

GenerateQuote ==
    /\ Len(quotes) < MaxCalls
    /\ \E now \in clock..MaxClock :
           /\ quotes' = Append(quotes, generateQuote(manifest, now))
           /\ clock' = now
    /\ manifest' = manifestAfterGenerateQuote(manifest)
    /\ UNCHANGED <<policy, value, other, canon, edit>>

InitQuote ==
    /\ QuoteManifests(manifest)
    /\ policy = NotCalled
    /\ quotes = <<>>
    /\ clock = 0
    /\ value = Undefined
    /\ other = Undefined
    /\ canon = NotCalled
    /\ edit = NotCalled

NextQuote == GenerateQuote

SpecQuote == InitQuote /\ [][NextQuote]_vars

---------------------------------------------------------------------------
(* Properties of the quote engine *)

Count(seq, e) == Cardinality({i \in DOMAIN seq : seq[i] = e})

\* the calls of generateQuote so far that returned a quote
Returned == {i \in DOMAIN quotes : ~quotes[i].threw}

\* the call just made, when it returned a quote; the calls before it were
\* the call just made in an earlier state of the same manifest
LatestReturned == {i \in Returned : i = Len(quotes)}

\* C2: on a fixed manifest all the calls that return give the same
\* line_items, totals, skipped and deterministic_hash, whatever the clock
\* read at each call, and the hash is the fingerprint of
\* {totals, line_items, skipped}.
C2_QuoteDeterministic ==
    /\ \A i, j \in Returned :
           /\ quotes[i].line_items = quotes[j].line_items
           /\ quotes[i].totals = quotes[j].totals
           /\ quotes[i].skipped = quotes[j].skipped
           /\ quotes[i].deterministic_hash = quotes[j].deterministic_hash
    /\ \A i \in LatestReturned :
           quotes[i].deterministic_hash
               = sha256Hex(canonicalStringify(
                     fingerprintTarget(quotes[i].totals, quotes[i].line_items,
                                       quotes[i].skipped)))
    /\ \A i, j \in DOMAIN quotes : quotes[i].threw = quotes[j].threw

\* two quotes of one manifest taken at different times, with a line item
C2_Witness ==
    /\ Len(quotes) = 2
    /\ Returned = {1, 2}
    /\ quotes[1].generated_at # quotes[2].generated_at
    /\ quotes[1].line_items # <<>>
    /\ quotes[1].skipped # <<>>
    /\ quotes[1].deterministic_hash = quotes[2].deterministic_hash

\* the instances with a license_id whose status is there and not "active"
InactiveInstances(m) ==
    {k \in DOMAIN m.license_instances :
        /\ m.license_instances[k].license_id \notin {Null, ""}
        /\ m.license_instances[k].status \notin {Null, "", "active"}}

WithoutInstance(m, k) ==
    [m EXCEPT !.license_instances = RemoveAt(m.license_instances, k)]

\* C4: an instance with a status other than active gives no line item and
\* adds to no total, whatever it references: the quote has the line items
\* and totals of the manifest without that instance, and one more skipped
\* entry, '<license_id>:status=<status>'.  An instance without status is
\* not skipped for its status: it is quoted as the same instance active.
C4_InactiveInstanceExcluded ==
    \A i \in LatestReturned :
        /\ \A k \in InactiveInstances(manifest) :
               LET instance == manifest.license_instances[k]
                   entry == instance.license_id \o ":status=" \o instance.status
                   rest == generateQuote(WithoutInstance(manifest, k), quotes[i].generated_at)
               IN  /\ ~rest.threw
                   /\ quotes[i].line_items = rest.line_items
                   /\ quotes[i].totals = rest.totals
                   /\ Len(quotes[i].skipped) = Len(rest.skipped) + 1
                   /\ Count(quotes[i].skipped, entry) = Count(rest.skipped, entry) + 1
        /\ \A k \in DOMAIN manifest.license_instances :
               LET instance == manifest.license_instances[k]
               IN  (instance.license_id \notin {Null, ""} /\ instance.status = Null) =>
                       /\ \A st \in {Null, "", "undefined", "null", "active"} :
                              Count(quotes[i].skipped,
                                    instance.license_id \o ":status=" \o st) = 0
                       /\ quotes[i] = generateQuote(
                              [manifest EXCEPT !.license_instances[k].status = "active"],
                              quotes[i].generated_at)

\* an expired instance that references an offering of the manifest, beside
\* an instance that was priced
C4_Witness ==
    \E i \in Returned :
        /\ quotes[i].line_items # <<>>
        /\ \E k \in InactiveInstances(manifest) :
               \E o \in DOMAIN manifest.license_offerings :
                   /\ manifest.license_instances[k].offering_ref.offering_id
                          = manifest.license_offerings[o].offering_id
                   /\ manifest.license_instances[k].offering_ref.offering_version
                          = manifest.license_offerings[o].offering_version

\* a when clause applies to the instance: there is none, or it matches
C6_Applies(rule, instance) ==
    rule.when = Undefined \/ matchesWhen(rule.when, instance)

\* a number of millionths rounded to two decimals, a half going up, in
\* thousandths
C6_Round2(millionths) == ((millionths + 5000) \div 10000) * 10

\* the amount of claim C6, rule after rule
RECURSIVE C6_Amount(_, _, _)
C6_Amount(amount, rules, instance) ==
    IF rules = <<>> THEN amount
    ELSE LET rule == Head(rules)
             multiplier == IF rule.multiplier = NoNumber THEN Scale ELSE rule.multiplier
             add == IF rule.add = NoNumber THEN 0 ELSE rule.add
         IN  C6_Amount(IF C6_Applies(rule, instance)
                       THEN C6_Round2(amount * multiplier + add * Scale)
                       ELSE amount,
                       Tail(rules), instance)

\* C6: the amount of a line item is the base price taken through the rules
\* in declaration order, each rule that applies turning the amount into
\* round2(amount * multiplier + add) (multiplier 1 and add 0 when absent)
\* and the others leaving it; the amount emitted has two decimals; base
\* price 100 with the matching rule (1.5, 20) gives 170.
C6_RuleCompounding ==
    \A i \in Returned :
        \A n \in DOMAIN quotes[i].line_items :
            LET item == quotes[i].line_items[n]
            IN  /\ item.amount % 10 = 0
                /\ \E k \in DOMAIN manifest.license_instances,
                      o \in DOMAIN manifest.license_offerings :
                       LET instance == manifest.license_instances[k]
                           offering == manifest.license_offerings[o]
                           formula == offering.price_formula
                       IN  /\ instance.license_id = item.license_id
                           /\ instance.offering_ref.offering_id = item.offering_id
                           /\ instance.offering_ref.offering_version = item.offering_version
                           /\ offering.offering_id = item.offering_id
                           /\ offering.offering_version = item.offering_version
                           /\ formula # Undefined
                           /\ item.currency = formula.currency
                           /\ item.amount
                                  = C6_Round2(C6_Amount(formula.base_price, formula.rules,
                                                        instance) * Scale)
                           /\ (formula = TestFormula
                               /\ instance.metric_limits
                                      = <<Limit("seats", "per_year", 20 * Scale)>>)
                              => item.amount = 170 * Scale

\* a formula of two rules: the first does not match the instance, the
\* second takes 10.02 to 13.026, emitted as 13.03
C6_Witness ==
    \E i \in Returned :
        /\ Len(manifest.license_offerings) = 1
        /\ Len(quotes[i].line_items) = 1
        /\ LET formula == manifest.license_offerings[1].price_formula
               instance == manifest.license_instances[1]
           IN  /\ Len(formula.rules) = 2
               /\ formula.base_price = 10020
               /\ ~C6_Applies(formula.rules[1], instance)
               /\ C6_Applies(formula.rules[2], instance)
               /\ formula.rules[2].multiplier = 1300
               /\ quotes[i].line_items[1].amount = 13030

\* the active (or status-less) instances whose offering_ref names a pair no
\* offering of the manifest carries
DanglingInstances(m) ==
    {k \in DOMAIN m.license_instances :
        LET instance == m.license_instances[k]
        IN  /\ instance.license_id \notin {Null, ""}
            /\ instance.status \in {Null, "", "active"}
            /\ instance.offering_ref # Undefined
            /\ instance.offering_ref.offering_id \notin {Null, ""}
            /\ instance.offering_ref.offering_version \notin {Null, ""}
            /\ \A o \in DOMAIN m.license_offerings :
                   \/ m.license_offerings[o].offering_id
                          # instance.offering_ref.offering_id
                   \/ m.license_offerings[o].offering_version
                          # instance.offering_ref.offering_version}

\* the instances that pass the three skip checks and whose offering has no
\* price formula, or one without currency or base price
MalformedPricing(m) ==
    {k \in DOMAIN m.license_instances :
        LET instance == m.license_instances[k]
        IN  /\ instance.license_id \notin {Null, ""}
            /\ instance.status \in {Null, "", "active"}
            /\ instance.offering_ref # Undefined
            /\ \E o \in DOMAIN m.license_offerings :
                   LET offering == m.license_offerings[o]
                   IN  /\ offering.offering_id = instance.offering_ref.offering_id
                       /\ offering.offering_version = instance.offering_ref.offering_version
                       /\ offering.offering_id \notin {Null, ""}
                       /\ offering.offering_version \notin {Null, ""}
                       /\ \/ offering.price_formula = Undefined
                          \/ offering.price_formula.currency \in {Null, ""}
                          \/ offering.price_formula.base_price = NoNumber}

\* C10: an active instance whose offering_ref names no offering of the
\* manifest does not make generateQuote fail (a call fails only over a
\* malformed price formula); the quote has the line items and totals of
\* the manifest without that instance, no line item for the missing pair,
\* and one more skipped entry, '<license_id>:offering_not_found'.
C10_OfferingNotFound ==
    \A i \in DOMAIN quotes :
        /\ quotes[i].threw => MalformedPricing(manifest) # {}
        /\ ~quotes[i].threw =>
               \A k \in DanglingInstances(manifest) :
                   LET instance == manifest.license_instances[k]
                       entry == instance.license_id \o ":offering_not_found"
                       rest == generateQuote(WithoutInstance(manifest, k),
                                             quotes[i].generated_at)
                   IN  /\ ~rest.threw
                       /\ quotes[i].line_items = rest.line_items
                       /\ quotes[i].totals = rest.totals
                       /\ \A n \in DOMAIN quotes[i].line_items :
                              \/ quotes[i].line_items[n].offering_id
                                     # instance.offering_ref.offering_id
                              \/ quotes[i].line_items[n].offering_version
                                     # instance.offering_ref.offering_version
                       /\ Len(quotes[i].skipped) = Len(rest.skipped) + 1
                       /\ Count(quotes[i].skipped, entry) = Count(rest.skipped, entry) + 1

\* a quote returned for a manifest with a dangling instance and a priced one
C10_Witness ==
    \E i \in Returned :
        /\ DanglingInstances(manifest) # {}
        /\ quotes[i].line_items # <<>>
        /\ \E k \in DanglingInstances(manifest) :
               Count(quotes[i].skipped,
                     manifest.license_instances[k].license_id \o ":offering_not_found") = 1

---------------------------------------------------------------------------
(* The fingerprint primitive on JSON values.  An object is the sequence of *)
(* its entries in insertion order.  Keys that look like array indices are  *)
(* left out: the runtime lists those first, whatever the insertion order.  *)

\* quote.js line 217: the hash of the canonical serialization
fingerprint(v) == sha256Hex(canonicalStringify(v))

Scalars == {JNull, JNumber(Scale), JString("b")}

\* "e_acute_nfc" and "e_acute_nfd" are two distinct keys that localeCompare
\* reports as equal
CanonKeys == {"a", "e_acute_nfc", "e_acute_nfd"}

\* the entry lists of an object: no key twice
EntryLists(vals) ==
    {e \in SeqsUpTo([key : CanonKeys, value : vals], MaxLen) :
        \A i, j \in DOMAIN e : i # j => e[i].key # e[j].key}

RECURSIVE JsonValues(_)
JsonValues(depth) ==
    IF depth = 0 THEN Scalars
    ELSE LET inner == JsonValues(depth - 1)
         IN  Scalars
             \cup {JArray(items) : items \in SeqsUpTo(inner, MaxLen)}
             \cup {JObject(entries) : entries \in EntryLists(inner)}

\* the values deep-equal to v that differ from it only in the insertion
\* order of object keys, at any depth
RECURSIVE Reorderings(_)
Reorderings(v) ==
    IF v.t = "array"
    THEN {JArray(items) :
             items \in {s \in [DOMAIN v.items -> UNION {Reorderings(v.items[i]) :
                                                          i \in DOMAIN v.items}] :
                           \A i \in DOMAIN v.items : s[i] \in Reorderings(v.items[i])}}
    ELSE IF v.t = "object"
    THEN {JObject([i \in DOMAIN v.entries |->
                      [key |-> v.entries[p[i]].key, value |-> vals[p[i]]]]) :
             p \in Permutations(DOMAIN v.entries),
             vals \in {s \in [DOMAIN v.entries ->
                                 UNION {Reorderings(v.entries[i].value) :
                                           i \in DOMAIN v.entries}] :
                          \A i \in DOMAIN v.entries :
                              s[i] \in Reorderings(v.entries[i].value)}}
    ELSE {v}

\* canonicalize(value) and canonicalize(other)
Canonicalize ==
    /\ ~canon.called
    /\ canon' = [called |-> TRUE, op |-> "canonicalize",
                 result |-> canonicalize(value),
                 otherResult |-> canonicalize(other)]
    /\ UNCHANGED <<manifest, policy, quotes, clock, value, other, edit>>

\* the fingerprints of value and of other
Fingerprint ==
    /\ ~canon.called
    /\ canon' = [called |-> TRUE, op |-> "fingerprint",
                 result |-> fingerprint(value),
                 otherResult |-> fingerprint(other)]
    /\ UNCHANGED <<manifest, policy, quotes, clock, value, other, edit>>

InitCanon ==
    /\ manifest = Manifest(<<>>, <<>>, <<>>, <<>>)
    /\ policy = NotCalled
    /\ quotes = <<>>
    /\ clock = 0
    /\ \E v \in JsonValues(MaxDepth) :
           /\ value = v
           /\ \E w \in Reorderings(v) : other = w
    /\ canon = NotCalled
    /\ edit = NotCalled

NextCanon == Canonicalize \/ Fingerprint

SpecCanon == InitCanon /\ [][NextCanon]_vars

---------------------------------------------------------------------------
(* Properties of the fingerprint primitive *)

\* canonicalize is idempotent
CanonicalizeIdempotent ==
    (canon.called /\ canon.op = "canonicalize") =>
        /\ canonicalize(canon.result) = canon.result
        /\ canonicalize(canon.otherResult) = canon.otherResult

\* a value and its canonical form have the same fingerprint
FingerprintOfCanonical ==
    (canon.called /\ canon.op = "fingerprint") =>
        /\ canon.result = fingerprint(canonicalize(value))
        /\ canon.otherResult = fingerprint(canonicalize(other))

\* two values that differ only in key insertion order have the same
\* canonical serialization and the same fingerprint
KeyOrderInsensitive ==
    /\ (canon.called /\ canon.op = "canonicalize") =>
           JSONstringify(canon.result) = JSONstringify(canon.otherResult)
    /\ (canon.called /\ canon.op = "fingerprint") =>
           canon.result = canon.otherResult

\* C3: for every JSON value v, canonicalize(canonicalize(v)) =
\* canonicalize(v), fingerprint(v) = fingerprint(canonicalize(v)), and two
\* values that are deep-equal and differ only in the insertion order of
\* object keys, at any depth, have the same canonical serialization and the
\* same fingerprint.
C3_CanonicalForm ==
    /\ CanonicalizeIdempotent
    /\ FingerprintOfCanonical
    /\ KeyOrderInsensitive

\* the keys that localeCompare tells apart from every other key of their
\* object, everywhere in v
RECURSIVE KeysToldApart(_)
KeysToldApart(v) ==
    IF v.t = "array" THEN \A i \in DOMAIN v.items : KeysToldApart(v.items[i])
    ELSE IF v.t = "object"
    THEN /\ \A i, j \in DOMAIN v.entries :
                i # j => localeCompare(v.entries[i].key, v.entries[j].key) # 0
         /\ \A i \in DOMAIN v.entries : KeysToldApart(v.entries[i].value)
    ELSE TRUE

\* key order is immaterial when no object holds two keys that compare equal
KeyOrderInsensitiveWhenToldApart == KeysToldApart(value) => KeyOrderInsensitive

---------------------------------------------------------------------------
(* Failure of the quote engine *)

\* the instances that pass the three skip checks and resolve to an offering
\* whose base price is a negative number
NegativelyPriced(m) ==
    {k \in DOMAIN m.license_instances :
        LET instance == m.license_instances[k]
        IN  /\ instance.license_id \notin {Null, ""}
            /\ instance.status \in {Null, "", "active"}
            /\ instance.offering_ref # Undefined
            /\ \E o \in DOMAIN m.license_offerings :
                   LET offering == m.license_offerings[o]
                   IN  /\ offering.offering_id = instance.offering_ref.offering_id
                       /\ offering.offering_version = instance.offering_ref.offering_version
                       /\ offering.offering_id \notin {Null, ""}
                       /\ offering.offering_version \notin {Null, ""}
                       /\ offering.price_formula # Undefined
                       /\ offering.price_formula.base_price # NoNumber
                       /\ offering.price_formula.base_price < 0}

\* a failed call carries its error and nothing of a quote
FailedWithoutQuote(q) == q.threw /\ DOMAIN q = {"threw", "error"}

\* a price formula that is missing, or lacks its currency or a numeric base
\* price, makes the call fail, with no quote
MalformedFormulaFails ==
    \A i \in DOMAIN quotes :
        MalformedPricing(manifest) # {} => FailedWithoutQuote(quotes[i])

\* C11: when an instance that passes the skip checks resolves to an
\* offering whose price_formula is missing, has no currency, or has a
\* non-numeric or negative base_price, generateQuote fails and returns no
\* quote: no line items, no totals, no skipped entry.
C11_InvalidFormulaFails ==
    \A i \in DOMAIN quotes :
        (MalformedPricing(manifest) # {} \/ NegativelyPriced(manifest) # {})
            => FailedWithoutQuote(quotes[i])

\* a quote returned with a line item of negative amount
NegativeLineItem ==
    \E i \in Returned :
        /\ NegativelyPriced(manifest) # {}
        /\ \E n \in DOMAIN quotes[i].line_items : quotes[i].line_items[n].amount < 0

---------------------------------------------------------------------------
(* Manifests with optional fields left out, and manifests that hold a null *)
(* entry where the schema wants an object                                  *)

SparseProjects ==
    { Undefined,
      [project_id |-> "proj_1", domains |-> <<>>],
      [project_id |-> "proj_1", domains |-> <<"example.com">>] }

SparseFonts ==
    { [font_id |-> id, source |-> source, license_instance_ids |-> ids,
       active_license_instance_id |-> active, usage |-> usage] :
        id \in {Null, "font_1"},
        source \in {Undefined, [type |-> Null], [type |-> "byo"]},
        ids \in {<<>>, <<"lic_1">>, <<"lic_9">>},
        active \in {Null, "lic_1"},
        usage \in {Undefined, Usage(TRUE, NoHosting, <<"convert">>)} }

SparseInstances ==
    { [license_id |-> "lic_1", status |-> status, evidence |-> <<>>, scope |-> scope,
       offering_ref |-> ref, metric_limits |-> <<>>] :
        status \in {Null, "expired"},
        scope \in {Undefined, [scope_type |-> "project", domains |-> <<>>],
                   [scope_type |-> "project", domains |-> <<"example.org">>]},
        ref \in {Undefined, Ref1, [offering_id |-> "off_1", offering_version |-> Null],
                 [offering_id |-> "off_9", offering_version |-> "1.0.0"]} }

SparseManifests(m) ==
    \E project \in SparseProjects,
       fonts \in {<<>>} \cup {<<f>> : f \in SparseFonts},
       instances \in {<<>>} \cup {<<i>> : i \in SparseInstances},
       offerings \in {<<>>, <<BaseOffering>>} :
        m = [project |-> project, fonts |-> fonts, license_instances |-> instances,
             license_offerings |-> offerings]

\* a null entry among the fonts, the instances or the offerings
NullEntryManifests(m) ==
    \E fonts \in {<<Font("font_1", "byo", [ids |-> <<"lic_1">>, active |-> Null], Undefined)>>,
                  <<Undefined>>},
       instances \in {<<Instance("lic_1", "active", <<Evidence>>, <<>>, Ref1)>>,
                      <<Instance("lic_1", "active", <<Evidence>>, <<>>, Ref1), Undefined>>},
       offerings \in {<<BaseOffering>>, <<Undefined, BaseOffering>>} :
        /\ m = Manifest(<<>>, fonts, instances, offerings)
        /\ propertyReadFailures(m) # {}

InitSparse ==
    /\ SparseManifests(manifest) \/ NullEntryManifests(manifest)
    /\ policy = NotCalled
    /\ quotes = <<>>
    /\ clock = 0
    /\ value = Undefined
    /\ other = Undefined
    /\ canon = NotCalled
    /\ edit = NotCalled

SpecSparse == InitSparse /\ [][NextPolicy]_vars

\* every entry of fonts, license_instances and license_offerings is an object
SchemaValid(m) ==
    /\ \A k \in DOMAIN m.fonts : m.fonts[k] # Undefined
    /\ \A k \in DOMAIN m.license_instances : m.license_instances[k] # Undefined
    /\ \A k \in DOMAIN m.license_offerings : m.license_offerings[k] # Undefined

RightsCodes ==
    {"SELF_HOSTING_NOT_ALLOWED", "MODIFICATION_NOT_ALLOWED", "MODIFICATION_KIND_NOT_ALLOWED"}

\* reasons without the DOMAIN_OUT_OF_SCOPE findings
WithoutDomainFindings(reasons) ==
    LET Keep(r) == r.code # "DOMAIN_OUT_OF_SCOPE" IN SelectSeq(reasons, Keep)

\* reasons without the findings of the rights checks
WithoutRightsFindings(reasons) ==
    LET Keep(r) == r.code \notin RightsCodes IN SelectSeq(reasons, Keep)

\* C12: on a schema-valid manifest evaluatePolicy raises nothing and
\* returns a decision, whatever optional fields are absent; an absent
\* signal skips the check that depends on it and no other: without project
\* domains, or without scope domains, the reasons are those of the manifest
\* that has them, less the DOMAIN_OUT_OF_SCOPE findings; without font usage
\* they are those of the manifest with a usage, less the findings of the
\* rights checks; without offerings there is no finding of a rights check.
C12_NoException ==
    (policy.called /\ SchemaValid(manifest)) =>
        /\ DOMAIN policy = {"called", "decision", "reasons", "evidence_required"}
        /\ policy.decision \in {"allow", "warn", "escalate"}
        /\ policy.decision = makeDecision(policy.reasons)
        /\ Len(readProjectDomains(manifest)) = 0 =>
               policy.reasons
                   = WithoutDomainFindings(
                         evaluatePolicy([manifest EXCEPT !.project =
                             [project_id |-> "proj_1",
                              domains |-> <<"example.com", "example.net">>]]).reasons)
        /\ \A j \in DOMAIN manifest.license_instances :
               LET scope == manifest.license_instances[j].scope
               IN  (scope = Undefined \/ asStringArray(scope.domains) = <<>>) =>
                       policy.reasons
                           = WithoutDomainFindings(
                                 evaluatePolicy([manifest EXCEPT !.license_instances[j].scope =
                                     [scope_type |-> "project",
                                      domains |-> <<"example.net">>]]).reasons)
        /\ \A k \in DOMAIN manifest.fonts :
               (manifest.fonts[k].usage = Undefined /\ Len(manifest.fonts) = 1) =>
                   policy.reasons
                       = WithoutRightsFindings(
                             evaluatePolicy([manifest EXCEPT !.fonts[k].usage =
                                 Usage(TRUE, NoHosting, <<"convert">>)]).reasons)
        /\ manifest.license_offerings = <<>> =>
               WithoutRightsFindings(policy.reasons) = policy.reasons

\* a decision for a manifest without project, without offerings, with a
\* font without source and usage and an expired instance without scope
C12_Witness ==
    /\ policy.called
    /\ SchemaValid(manifest)
    /\ manifest.project = Undefined
    /\ manifest.license_offerings = <<>>
    /\ Len(manifest.fonts) = 1
    /\ manifest.fonts[1].usage = Undefined
    /\ manifest.fonts[1].source = Undefined
    /\ Len(manifest.license_instances) = 1
    /\ manifest.license_instances[1].scope = Undefined
    /\ manifest.license_instances[1].offering_ref = Ref1
    /\ policy.decision = "escalate"
    /\ Len(policy.reasons) = 2

\* the call raised on a manifest with a null entry
NullEntryRaises ==
    (policy.called /\ ~SchemaValid(manifest)) => DOMAIN policy = {"called", "threw", "error"}

---------------------------------------------------------------------------
(* The two engines on one manifest: fonts, two instances in either order, *)
(* and the two versions of one offering with different rights and prices  *)

EngineFonts ==
    { <<Font("font_1", "byo", [ids |-> <<"lic_1">>, active |-> Null], u)>> \o more :
        u \in {Undefined, Usage(TRUE, NoHosting, <<"convert">>)},
        more \in {<<>>, <<Font("font_2", "oss", [ids |-> <<"lic_2">>, active |-> Null],
                               Usage(TRUE, NoHosting, <<>>))>>} }

EngineInstance(id, status, ref) ==
    [license_id |-> id, status |-> status, evidence |-> <<Evidence>>,
     scope |-> [scope_type |-> "project", domains |-> <<"example.com">>],
     offering_ref |-> ref,
     metric_limits |-> <<Limit("seats", "per_year", 20 * Scale)>>]

EngineInstances ==
    { order :
        order \in UNION {{<<EngineInstance("lic_1", s1, r1), EngineInstance("lic_2", s2, r2)>>,
                          <<EngineInstance("lic_2", s2, r2), EngineInstance("lic_1", s1, r1)>>} :
                            s1 \in {"active", "expired"}, s2 \in {"active", "expired"},
                            r1 \in {Ref1, Ref2}, r2 \in {Ref1, Ref2}} }

\* version 1.0.0: CDN hosting only, modification "subset", 100 EUR with the
\* rule of the test fixture
VersionOne == Offering("off_1", "1.0.0", BaseRights, TestFormula)

\* version 2.0.0: self-hosting and every modification allowed, 49.99 USD
VersionTwo ==
    Offering("off_1", "2.0.0",
             << Right("distribution_cdn_hosting", TRUE, <<>>),
                Right("distribution_self_hosting", TRUE, <<>>),
                Right("modification", TRUE, <<>>) >>,
             UsdFormula)

EngineOfferings ==
    { <<VersionOne>>, <<VersionTwo>>, <<VersionOne, VersionTwo>>, <<VersionTwo, VersionOne>>,
      <<Offering("off_1", "1.0.0", BaseRights, Undefined), VersionTwo>> }

\* a reference and an offering that name different pairs, ("off", "1@2") and
\* ("off@1", "2"), of which makeOfferingKey makes the same key.  The schema
\* of the manifest (ID_PATTERN, SEMVER_PATTERN of manifest-lib) admits no "@"
\* in an id or a version, so these are no manifests the engines are handed
\* after validation; they are kept apart from EngineManifests.
SeparatorRef == [offering_id |-> "off", offering_version |-> "1@2"]

SeparatorOffering ==
    Offering("off@1", "2",
             << Right("distribution_cdn_hosting", TRUE, <<>>),
                Right("distribution_self_hosting", FALSE, <<>>) >>,
             UsdFormula)

SeparatorManifests(m) ==
    \E fonts \in EngineFonts, status \in {"active", "expired"},
       offerings \in {<<SeparatorOffering>>, <<VersionOne, SeparatorOffering>>} :
        m = Manifest(<<>>, fonts,
                     <<EngineInstance("lic_1", "active", SeparatorRef),
                       EngineInstance("lic_2", status, Ref1)>>,
                     offerings)

EngineManifests(m) ==
    \E d \in {<<>>, <<"example.org", "example.com">>}, fonts \in EngineFonts,
       instances \in EngineInstances, offerings \in EngineOfferings :
        m = Manifest(d, fonts, instances, offerings)

InitEngines ==
    /\ EngineManifests(manifest)
    /\ policy = NotCalled
    /\ quotes = <<>>
    /\ clock = 0
    /\ value = Undefined
    /\ other = Undefined
    /\ canon = NotCalled
    /\ edit = NotCalled

NextEngines == EvaluatePolicy \/ GenerateQuote

SpecEngines == InitEngines /\ [][NextEngines]_vars

\* C13: evaluatePolicy and generateQuote leave the manifest as it was,
\* whether the call returns or fails: the same fonts, instances, offerings,
\* rules and metric limits in the same order.
C13_InputUnchanged == [][manifest' = manifest]_vars

\* both engines have run on a manifest whose instances and project domains
\* are not in sorted order, and the quote lists its line items sorted
C13_Witness ==
    /\ policy.called
    /\ Returned # {}
    /\ manifest.project.domains = <<"example.org", "example.com">>
    /\ manifest.license_instances[1].license_id = "lic_2"
    /\ manifest.license_instances[2].license_id = "lic_1"
    /\ Len(quotes[1].line_items) = 2
    /\ quotes[1].line_items[1].license_id = "lic_1"

\* a call of generateQuote has failed on a manifest with instances out of order
FailedOutOfOrder ==
    /\ quotes # <<>>
    /\ quotes[1].threw
    /\ manifest.license_instances[1].license_id = "lic_2"

---------------------------------------------------------------------------
(* Which instance a font is checked against *)

\* the instance the font designates: the last in the manifest with the
\* designated id (0: none)
DesignatedInstance(m, font) ==
    IF DesignatedInstances(m, font) = {} THEN 0
    ELSE CHOOSE k \in DesignatedInstances(m, font) :
             \A j \in DesignatedInstances(m, font) : j <= k

Inactive(instance) == instance.status \notin {Null, "", "active"}

\* the fonts whose designated instance carries this id and is not active
InactiveFontsOf(m, id) ==
    {k \in DOMAIN m.fonts :
        /\ DesignatedInstance(m, m.fonts[k]) # 0
        /\ DesignatedId(m.fonts[k]) = id
        /\ Inactive(m.license_instances[DesignatedInstance(m, m.fonts[k])])}

StatusFindingsOf(reasons, id) ==
    {i \in DOMAIN reasons :
        reasons[i].code = "LICENSE_STATUS_NOT_ACTIVE" /\ reasons[i].context.license_id = id}

\* C14: the instance a font is checked against is the one whose license_id
\* is the font's active_license_instance_id when that is present, else the
\* first entry of license_instance_ids, else none; a present active id wins
\* over the list.  Seen in the result: the status findings are those of the
\* designated instances, and a BYO font gets BYO_NO_LICENSE_INSTANCE when it
\* designates no instance of the manifest, BYO_NO_EVIDENCE naming the
\* designated id when the designated instance has no evidence.
C14_InstanceResolution ==
    (policy.called /\ DistinctFontIds(manifest)) =>
        /\ \A id \in {"lic_1", "lic_2", "lic_9"} :
               /\ Cardinality(StatusFindingsOf(policy.reasons, id))
                      = Cardinality(InactiveFontsOf(manifest, id))
               /\ \A i \in StatusFindingsOf(policy.reasons, id) :
                      \E k \in InactiveFontsOf(manifest, id) :
                          policy.reasons[i].context.status
                              = manifest.license_instances[
                                    DesignatedInstance(manifest, manifest.fonts[k])].status
        /\ \A k \in DOMAIN manifest.fonts :
               LET font == manifest.fonts[k]
                   idx == DesignatedInstance(manifest, font)
                   none == FindingsFor(policy.reasons, "BYO_NO_LICENSE_INSTANCE", font.font_id)
                   bare == FindingsFor(policy.reasons, "BYO_NO_EVIDENCE", font.font_id)
               IN  /\ Cardinality(none) = IF IsByo(font) /\ idx = 0 THEN 1 ELSE 0
                   /\ Cardinality(bare)
                          = IF IsByo(font) /\ idx # 0
                               /\ manifest.license_instances[idx].evidence = <<>>
                            THEN 1 ELSE 0
                   /\ \A i \in bare :
                          policy.reasons[i].context.license_id = DesignatedId(font)

\* a font that lists a revoked instance first and names an active one as
\* its active instance is allowed
C14_Witness ==
    /\ policy.called
    /\ Len(manifest.fonts) = 1
    /\ manifest.fonts[1].license_instance_ids = <<"lic_2", "lic_1">>
    /\ manifest.fonts[1].active_license_instance_id = "lic_1"
    /\ \E k \in DOMAIN manifest.license_instances :
           /\ manifest.license_instances[k].license_id = "lic_2"
           /\ manifest.license_instances[k].status = "revoked"
    /\ policy.decision = "allow"

---------------------------------------------------------------------------
(* The status check and the checks after it *)

Codes(reasons) == [i \in DOMAIN reasons |-> reasons[i].code]

LaterCodes ==
    {"DOMAIN_OUT_OF_SCOPE", "OFFERING_REFERENCE_MISSING"} \cup RightsCodes

\* C15: a font whose instance has a status other than active gets
\* LICENSE_STATUS_NOT_ACTIVE (escalate) and the decision is escalate; the
\* domain, offering, self-hosting and modification checks still run for the
\* font: the other findings are those of the same manifest with that
\* instance active, and those of the later checks come after the status
\* finding.
C15_StatusDoesNotSuppress ==
    (policy.called /\ Len(manifest.fonts) = 1) =>
        LET font == manifest.fonts[1]
            idx == DesignatedInstance(manifest, font)
        IN  (idx # 0 /\ Inactive(manifest.license_instances[idx])) =>
                LET activated == [manifest EXCEPT !.license_instances[idx].status = "active"]
                    found == StatusFindingsOf(policy.reasons, DesignatedId(font))
                IN  /\ Cardinality(found) = 1
                    /\ policy.decision = "escalate"
                    /\ \A s \in found :
                           /\ policy.reasons[s].severity = "escalate"
                           /\ policy.reasons[s].context.status
                                  = manifest.license_instances[idx].status
                           /\ RemoveAt(policy.reasons, s) = evaluatePolicy(activated).reasons
                           /\ \A i \in DOMAIN policy.reasons :
                                  policy.reasons[i].code \in LaterCodes => i > s

\* an expired instance whose font also gets a domain, a self-hosting and a
\* modification finding
C15_Witness ==
    /\ policy.called
    /\ Codes(policy.reasons)
           = << "LICENSE_STATUS_NOT_ACTIVE", "DOMAIN_OUT_OF_SCOPE",
                "SELF_HOSTING_NOT_ALLOWED", "MODIFICATION_KIND_NOT_ALLOWED" >>

\* an expired instance whose offering reference names no offering
ExpiredAndDangling ==
    /\ policy.called
    /\ Codes(policy.reasons) = <<"LICENSE_STATUS_NOT_ACTIVE", "OFFERING_REFERENCE_MISSING">>

---------------------------------------------------------------------------
(* The domain scope check *)

\* the non-empty strings of a list that may be absent
DeclaredDomains(holder) ==
    IF holder = Undefined THEN <<>>
    ELSE SelectSeq(holder.domains, LAMBDA d : d \notin {Null, ""})

DomainFindings(reasons) == SelectSeq(reasons, LAMBDA r : r.code = "DOMAIN_OUT_OF_SCOPE")

\* C16: a font with a resolved instance gets one DOMAIN_OUT_OF_SCOPE (warn)
\* per project domain that the scope of the instance does not list, in the
\* order of the project domains, when the project and the scope both list a
\* domain; when either lists none, and when the font has no instance, it
\* gets none.
C16_DomainScope ==
    (policy.called /\ Len(manifest.fonts) = 1) =>
        LET font == manifest.fonts[1]
            idx == DesignatedInstance(manifest, font)
            projectDomains == DeclaredDomains(manifest.project)
            scopeDomains == IF idx = 0 THEN <<>>
                            ELSE DeclaredDomains(manifest.license_instances[idx].scope)
            missing == SelectSeq(projectDomains,
                                 LAMBDA d : \A j \in DOMAIN scopeDomains : scopeDomains[j] # d)
            found == DomainFindings(policy.reasons)
        IN  /\ (idx = 0 \/ projectDomains = <<>> \/ scopeDomains = <<>>) => found = <<>>
            /\ (idx # 0 /\ projectDomains # <<>> /\ scopeDomains # <<>>) =>
                   /\ Len(found) = Len(missing)
                   /\ \A i \in DOMAIN found :
                          /\ found[i].severity = "warn"
                          /\ found[i].context.domain = missing[i]
                          /\ found[i].context.license_id = DesignatedId(font)

\* two project domains out of the scope, reported in project order, which
\* is not the sorted order
C16_Witness ==
    /\ policy.called
    /\ Len(manifest.fonts) = 1
    /\ manifest.project # Undefined
    /\ manifest.project.domains = <<"example.org", "example.net">>
    /\ Len(DomainFindings(policy.reasons)) = 2
    /\ DomainFindings(policy.reasons)[1].context.domain = "example.org"
    /\ DomainFindings(policy.reasons)[2].context.domain = "example.net"

\* project domains and a scope without domains: no finding
ScopeWithoutDomains ==
    /\ policy.called
    /\ Len(manifest.fonts) = 1
    /\ DesignatedInstance(manifest, manifest.fonts[1]) # 0
    /\ DeclaredDomains(manifest.project) # <<>>
    /\ manifest.license_instances[1].scope # Undefined
    /\ manifest.license_instances[1].scope.domains = <<"">>
    /\ policy.reasons = <<>>

---------------------------------------------------------------------------
(* Offering resolution in the policy engine *)

\* the reference carries an offering_id and an offering_version
CompleteRef(ref) ==
    /\ ref # Undefined
    /\ ref.offering_id \notin {Null, ""}
    /\ ref.offering_version \notin {Null, ""}

\* the offerings of the manifest that carry the pair the reference names
OfferingsNamed(m, ref) ==
    {o \in DOMAIN m.license_offerings :
        /\ m.license_offerings[o].offering_id = ref.offering_id
        /\ m.license_offerings[o].offering_version = ref.offering_version}

MissingFindings(reasons) ==
    SelectSeq(reasons, LAMBDA r : r.code = "OFFERING_REFERENCE_MISSING")

\* C17: a font gets OFFERING_REFERENCE_MISSING (warn) exactly when the
\* offering_ref of its instance carries both fields and no offering of the
\* manifest carries that pair; then, and when the reference lacks a field,
\* the font gets no self-hosting and no modification finding.
C17_OfferingMissing ==
    (policy.called /\ Len(manifest.fonts) = 1) =>
        LET font == manifest.fonts[1]
            idx == DesignatedInstance(manifest, font)
            ref == IF idx = 0 THEN Undefined ELSE manifest.license_instances[idx].offering_ref
            dangling == idx # 0 /\ CompleteRef(ref) /\ OfferingsNamed(manifest, ref) = {}
            found == MissingFindings(policy.reasons)
        IN  /\ Len(found) = IF dangling THEN 1 ELSE 0
            /\ \A i \in DOMAIN found :
                   /\ found[i].severity = "warn"
                   /\ found[i].context
                          = [license_id |-> DesignatedId(font),
                             offering_id |-> ref.offering_id,
                             offering_version |-> ref.offering_version]
            /\ (dangling \/ (idx # 0 /\ ~CompleteRef(ref))) =>
                   WithoutRightsFindings(policy.reasons) = policy.reasons

\* a self-hosted font that requires a modification, on an instance whose
\* reference names a version the manifest does not have: one finding
C17_Witness ==
    /\ policy.called
    /\ Len(manifest.fonts) = 1
    /\ isSelfHostingUsage(manifest.fonts[1].usage)
    /\ readRequiredModifications(manifest.fonts[1].usage) # <<>>
    /\ manifest.license_instances[1].offering_ref
           = [offering_id |-> "off_1", offering_version |-> "2.0.0"]
    /\ Codes(policy.reasons) = <<"OFFERING_REFERENCE_MISSING">>

\* the same font on a reference without version: no finding at all
IncompleteRefSilent ==
    /\ policy.called
    /\ Len(manifest.fonts) = 1
    /\ isSelfHostingUsage(manifest.fonts[1].usage)
    /\ readRequiredModifications(manifest.fonts[1].usage) # <<>>
    /\ DesignatedInstance(manifest, manifest.fonts[1]) # 0
    /\ manifest.license_instances[1].offering_ref
           = [offering_id |-> "off_1", offering_version |-> Null]
    /\ policy.reasons = <<>>

---------------------------------------------------------------------------
(* The composite key of an offering, in both engines *)

\* the offering that carries exactly the pair the reference names: the last
\* such offering of the manifest (0: none)
ExactOffering(m, ref) ==
    IF ~CompleteRef(ref) \/ OfferingsNamed(m, ref) = {} THEN 0
    ELSE CHOOSE o \in OfferingsNamed(m, ref) : \A j \in OfferingsNamed(m, ref) : j <= o

RightsFindingsNaming(reasons, fontId) ==
    SelectSeq(reasons, LAMBDA r : r.code \in RightsCodes /\ r.context.font_id = fontId)

MissingFindingsOf(reasons, id) ==
    SelectSeq(reasons,
              LAMBDA r : r.code = "OFFERING_REFERENCE_MISSING" /\ r.context.license_id = id)

LineItemsOf(q, id) == SelectSeq(q.line_items, LAMBDA item : item.license_id = id)

\* C18: an offering_ref resolves only to the offering that carries both its
\* offering_id and its offering_version.  In evaluatePolicy the rights
\* findings of a font are those of that offering, and the reference counts
\* as missing when there is none; in generateQuote the line item of an
\* instance carries the price of that offering, and the instance is skipped
\* as offering_not_found when there is none.
C18_CompositeKey ==
    /\ policy.called =>
           \A k \in DOMAIN manifest.fonts :
               LET font == manifest.fonts[k]
                   instance == manifest.license_instances[DesignatedInstance(manifest, font)]
                   exact == ExactOffering(manifest, instance.offering_ref)
               IN  /\ RightsFindingsNaming(policy.reasons, font.font_id)
                          = IF exact = 0 THEN <<>>
                            ELSE rightsReasons(font, manifest.license_offerings[exact])
                   /\ Len(MissingFindingsOf(policy.reasons, instance.license_id))
                          = IF exact = 0 THEN 1 ELSE 0
    /\ \A i \in Returned :
           \A k \in DOMAIN manifest.license_instances :
               LET instance == manifest.license_instances[k]
                   exact == ExactOffering(manifest, instance.offering_ref)
                   items == LineItemsOf(quotes[i], instance.license_id)
                   notFound == instance.license_id \o ":offering_not_found"
               IN  IF Inactive(instance) THEN items = <<>>
                   ELSE IF exact = 0
                   THEN items = <<>> /\ Count(quotes[i].skipped, notFound) = 1
                   ELSE LET priced == evaluateAmountForInstance(
                                          instance, manifest.license_offerings[exact])
                        IN  /\ Len(items) = 1
                            /\ items[1].offering_id = instance.offering_ref.offering_id
                            /\ items[1].offering_version
                                   = instance.offering_ref.offering_version
                            /\ items[1].currency = priced.currency
                            /\ items[1].amount = priced.amount
                            /\ Count(quotes[i].skipped, notFound) = 0

\* both versions in the manifest, version 1.0.0 first; lic_1 references
\* version 2.0.0: its font, self-hosted and in need of a modification, gets
\* no rights finding, and its line item is the 49.99 USD of version 2.0.0
C18_Witness ==
    /\ policy.called
    /\ Returned # {}
    /\ manifest.license_offerings = <<VersionOne, VersionTwo>>
    /\ manifest.fonts[1].usage = Usage(TRUE, NoHosting, <<"convert">>)
    /\ \E k \in DOMAIN manifest.license_instances :
           /\ manifest.license_instances[k].license_id = "lic_1"
           /\ manifest.license_instances[k].status = "active"
           /\ manifest.license_instances[k].offering_ref = Ref2
    /\ RightsFindingsNaming(policy.reasons, "font_1") = <<>>
    /\ LineItemsOf(quotes[1], "lic_1")
           = << [license_id |-> "lic_1", offering_id |-> "off_1",
                 offering_version |-> "2.0.0", currency |-> "USD", amount |-> 49990] >>

\* only version 1.0.0 in the manifest and a reference to version 2.0.0:
\* missing for both engines
OtherVersionIsMissing ==
    /\ policy.called
    /\ Returned # {}
    /\ manifest.license_offerings = <<VersionOne>>
    /\ \E k \in DOMAIN manifest.license_instances :
           /\ manifest.license_instances[k].license_id = "lic_1"
           /\ manifest.license_instances[k].status = "active"
           /\ manifest.license_instances[k].offering_ref = Ref2
    /\ Len(MissingFindingsOf(policy.reasons, "lic_1")) = 1
    /\ Count(quotes[1].skipped, "lic_1:offering_not_found") = 1


\* the engines on manifests that did not pass validation
InitSeparator ==
    /\ SeparatorManifests(manifest)
    /\ policy = NotCalled
    /\ quotes = <<>>
    /\ clock = 0
    /\ value = Undefined
    /\ other = Undefined
    /\ canon = NotCalled
    /\ edit = NotCalled

SpecSeparator == InitSeparator /\ [][NextEngines]_vars

\* no offering_id and no offering_version of the manifest holds the "@" that
\* makeOfferingKey puts between the two
WithoutSeparator(m) ==
    /\ \A o \in DOMAIN m.license_offerings :
           /\ m.license_offerings[o].offering_id \in {"off_1", "off_9"}
           /\ m.license_offerings[o].offering_version \in {"1.0.0", "2.0.0"}
    /\ \A k \in DOMAIN m.license_instances :
           /\ m.license_instances[k].offering_ref.offering_id \in {"off_1", "off_9"}
           /\ m.license_instances[k].offering_ref.offering_version \in {"1.0.0", "2.0.0"}

\* the composite key tells the pairs apart when no id and no version holds
\* the separator
CompositeKeyWithoutSeparator == WithoutSeparator(manifest) => C18_CompositeKey

\* the reference ("off", "1@2") priced and checked by the offering ("off@1", "2")
SeparatorCollision ==
    /\ policy.called
    /\ Returned # {}
    /\ manifest.license_offerings = <<SeparatorOffering>>
    /\ manifest.fonts[1].usage = Usage(TRUE, NoHosting, <<"convert">>)
    /\ Codes(policy.reasons) = <<"SELF_HOSTING_NOT_ALLOWED", "MODIFICATION_NOT_ALLOWED">>
    /\ LineItemsOf(quotes[1], "lic_1")
           = << [license_id |-> "lic_1", offering_id |-> "off",
                 offering_version |-> "1@2", currency |-> "USD", amount |-> 49990] >>

---------------------------------------------------------------------------
(* The self-hosting check *)

\* the usage signals self-hosting: self_hosting = true, or hosting equal to
\* or containing "self_hosting"
SignalsSelfHosting(usage) ==
    /\ usage # Undefined
    /\ \/ usage.self_hosting = TRUE
       \/ /\ usage.hosting.kind \in {"string", "array"}
          /\ \E k \in DOMAIN usage.hosting.val : usage.hosting.val[k] = "self_hosting"

\* the offering grants a right of this type: one of its rights carries the
\* type with allowed = true
Grants(rights, rightType) ==
    \E i \in DOMAIN rights : rights[i].right_type = rightType /\ rights[i].allowed = TRUE

\* the first right of this type, when there is one, has allowed = true
FirstGrants(rights, rightType) ==
    \E i \in DOMAIN rights :
        /\ rights[i].right_type = rightType
        /\ rights[i].allowed = TRUE
        /\ \A j \in 1..(i - 1) : rights[j].right_type # rightType

SelfHostingFindings(reasons) ==
    {i \in DOMAIN reasons : reasons[i].code = "SELF_HOSTING_NOT_ALLOWED"}

\* the same usage without any self-hosting signal
Unhosted(usage) == [usage EXCEPT !.self_hosting = FALSE, !.hosting = NoHosting]

\* the self-hosting finding of the one font of the manifest is there exactly
\* when expected, is a warn, and the other findings are those of the same
\* font without the self-hosting signal
SelfHostingExactly(expected) ==
    LET found == SelfHostingFindings(policy.reasons)
    IN  /\ Cardinality(found) = IF expected THEN 1 ELSE 0
        /\ \A s \in found :
               /\ policy.reasons[s].severity = "warn"
               /\ policy.reasons[s].context.font_id = manifest.fonts[1].font_id
               /\ RemoveAt(policy.reasons, s)
                      = evaluatePolicy([manifest EXCEPT !.fonts[1].usage = Unhosted(@)]).reasons

\* C19: SELF_HOSTING_NOT_ALLOWED (warn) is emitted for a font if and only if
\* its usage signals self-hosting, its offering resolves, the offering grants
\* a distribution_cdn_hosting right (allowed = true) and grants no
\* distribution_self_hosting right (allowed = true); the modification check
\* of the font still runs.
C19_SelfHosting ==
    (policy.called /\ Len(manifest.fonts) = 1) =>
        LET font == manifest.fonts[1]
            idx == DesignatedInstance(manifest, font)
            off == IF idx = 0 THEN 0
                   ELSE ExactOffering(manifest, manifest.license_instances[idx].offering_ref)
        IN  SelfHostingExactly(
                /\ off # 0
                /\ SignalsSelfHosting(font.usage)
                /\ Grants(manifest.license_offerings[off].rights, "distribution_cdn_hosting")
                /\ ~Grants(manifest.license_offerings[off].rights, "distribution_self_hosting"))

\* the finding follows the first right of each type: it is emitted exactly
\* when the first distribution_cdn_hosting right is allowed and the first
\* distribution_self_hosting right, if any, is not
SelfHostingByFirstRight ==
    (policy.called /\ Len(manifest.fonts) = 1) =>
        LET font == manifest.fonts[1]
            idx == DesignatedInstance(manifest, font)
            off == IF idx = 0 THEN 0
                   ELSE ExactOffering(manifest, manifest.license_instances[idx].offering_ref)
        IN  SelfHostingExactly(
                /\ off # 0
                /\ SignalsSelfHosting(font.usage)
                /\ FirstGrants(manifest.license_offerings[off].rights, "distribution_cdn_hosting")
                /\ ~FirstGrants(manifest.license_offerings[off].rights, "distribution_self_hosting"))

\* a self-hosted font on an offering whose second distribution_self_hosting
\* right is allowed gets the finding
ShadowedSelfHostingRight ==
    /\ policy.called
    /\ Len(manifest.fonts) = 1
    /\ Len(manifest.license_offerings) = 1
    /\ Grants(manifest.license_offerings[1].rights, "distribution_self_hosting")
    /\ Codes(policy.reasons) = <<"SELF_HOSTING_NOT_ALLOWED">>

\* a self-hosted font on an offering whose second distribution_cdn_hosting
\* right is allowed, and that has no self-hosting right, gets no finding
ShadowedCdnRight ==
    /\ policy.called
    /\ Len(manifest.fonts) = 1
    /\ Len(manifest.license_offerings) = 1
    /\ DesignatedInstance(manifest, manifest.fonts[1]) # 0
    /\ ExactOffering(manifest, manifest.license_instances[1].offering_ref) = 1
    /\ SignalsSelfHosting(manifest.fonts[1].usage)
    /\ Grants(manifest.license_offerings[1].rights, "distribution_cdn_hosting")
    /\ ~Grants(manifest.license_offerings[1].rights, "distribution_self_hosting")
    /\ policy.reasons = <<>>

\* the self-hosting finding followed by the modification finding of the font
SelfHostingThenModification ==
    /\ policy.called
    /\ Codes(policy.reasons) = <<"SELF_HOSTING_NOT_ALLOWED", "MODIFICATION_NOT_ALLOWED">>

---------------------------------------------------------------------------
(* The order of the reasons *)

\* the place of a finding within the findings of one font
CodeRank(code) ==
    CASE code \in {"BYO_NO_LICENSE_INSTANCE", "BYO_NO_EVIDENCE"} -> 1
      [] code = "LICENSE_STATUS_NOT_ACTIVE" -> 2
      [] code = "DOMAIN_OUT_OF_SCOPE" -> 3
      [] code = "OFFERING_REFERENCE_MISSING" -> 4
      [] code = "SELF_HOSTING_NOT_ALLOWED" -> 5
      [] code \in {"MODIFICATION_NOT_ALLOWED", "MODIFICATION_KIND_NOT_ALLOWED"} -> 6

\* BYO finding, status finding, domain findings, offering finding,
\* self-hosting finding, modification finding: each at most once, except the
\* domain findings
InFontOrder(reasons) ==
    \A i, j \in DOMAIN reasons :
        i < j =>
            \/ CodeRank(reasons[i].code) < CodeRank(reasons[j].code)
            \/ reasons[i].code = "DOMAIN_OUT_OF_SCOPE" /\ reasons[j].code = "DOMAIN_OUT_OF_SCOPE"

\* the reasons of the manifest that has only the font at this position
ReasonsOfFont(m, i) == evaluatePolicy([m EXCEPT !.fonts = <<m.fonts[i]>>]).reasons

\* the reasons of the first n fonts, font after font
RECURSIVE FontByFont(_, _)
FontByFont(m, n) ==
    IF n = 0 THEN <<>> ELSE FontByFont(m, n - 1) \o ReasonsOfFont(m, n)

\* C20: the reasons are listed font after font in the order of
\* manifest.fonts, whatever their severity, and the findings of one font are
\* in the order BYO finding, LICENSE_STATUS_NOT_ACTIVE, DOMAIN_OUT_OF_SCOPE
\* findings, OFFERING_REFERENCE_MISSING, SELF_HOSTING_NOT_ALLOWED,
\* modification finding.
C20_ReasonOrder ==
    policy.called =>
        /\ policy.reasons = FontByFont(manifest, Len(manifest.fonts))
        /\ \A i \in DOMAIN manifest.fonts : InFontOrder(ReasonsOfFont(manifest, i))

\* a warn of the first font listed before an escalate of the second
C20_Witness ==
    /\ policy.called
    /\ Len(manifest.fonts) >= 2
    /\ Len(policy.reasons) >= 2
    /\ policy.reasons[1].severity = "warn"
    /\ policy.reasons[1].context.font_id = manifest.fonts[1].font_id
    /\ policy.reasons[2].severity = "escalate"
    /\ ReasonsOfFont(manifest, 1) = <<policy.reasons[1]>>
    /\ policy.reasons[2] \in Range(ReasonsOfFont(manifest, 2))
    /\ policy.decision = "escalate"

\* one font with a finding of five of the six checks, in the order of the
\* checks, warn and escalate mixed
AllChecksInOrder ==
    /\ policy.called
    /\ Codes(policy.reasons)
           = << "BYO_NO_EVIDENCE", "LICENSE_STATUS_NOT_ACTIVE", "DOMAIN_OUT_OF_SCOPE",
                "SELF_HOSTING_NOT_ALLOWED", "MODIFICATION_KIND_NOT_ALLOWED" >>
    /\ [i \in DOMAIN policy.reasons |-> policy.reasons[i].severity]
           = <<"warn", "escalate", "warn", "warn", "escalate">>

\* the offering finding in its place, after the domain findings
MissingAfterDomain ==
    /\ policy.called
    /\ Codes(policy.reasons)
           = << "BYO_NO_EVIDENCE", "LICENSE_STATUS_NOT_ACTIVE", "DOMAIN_OUT_OF_SCOPE",
                "OFFERING_REFERENCE_MISSING" >>

---------------------------------------------------------------------------
(* evidence_required *)

ByoCodes == {"BYO_NO_LICENSE_INSTANCE", "BYO_NO_EVIDENCE"}

ByoFindings(reasons) == {i \in DOMAIN reasons : reasons[i].code \in ByoCodes}

\* strictly ascending in the order of localeCompare: sorted, no entry twice
StrictlySorted(strings) ==
    \A i, j \in DOMAIN strings : i < j => localeCompare(strings[i], strings[j]) < 0

\* C21: evidence_required is sorted and has no duplicates; it holds
\* "license_instances[].evidence[]" exactly once when some font got
\* BYO_NO_LICENSE_INSTANCE or BYO_NO_EVIDENCE, however many fonts did, and
\* it is empty when none did.
C21_EvidenceRequired ==
    policy.called =>
        /\ StrictlySorted(policy.evidence_required)
        /\ policy.evidence_required
               = IF ByoFindings(policy.reasons) # {} THEN <<EvidencePath>> ELSE <<>>

\* two fonts, one without instance and one without evidence: one entry
C21_Witness ==
    /\ policy.called
    /\ \E i, j \in ByoFindings(policy.reasons) :
           /\ policy.reasons[i].code = "BYO_NO_LICENSE_INSTANCE"
           /\ policy.reasons[j].code = "BYO_NO_EVIDENCE"
           /\ policy.reasons[i].context.font_id # policy.reasons[j].context.font_id
    /\ policy.evidence_required = <<EvidencePath>>

\* findings of other checks only: nothing required
NoByoNothingRequired ==
    /\ policy.called
    /\ policy.reasons # <<>>
    /\ ByoFindings(policy.reasons) = {}
    /\ policy.evidence_required = <<>>

---------------------------------------------------------------------------
(* Price rules: which when clauses match.  One active instance with its     *)
(* metric limits is priced by an offering of base price 100 with one rule   *)
(* of multiplier 2: the amount is 200 when the rule applies and 100 when it *)
(* is skipped.                                                              *)

MaxLimits == 2

\* the metric_type / period filter of a clause: none, either field, both
Filters ==
    {[metric_type |-> t, period |-> p] : t \in {Null, "seats"}, p \in {Null, "per_year"}}

\* the bound operators of a clause: none, each of the five alone, two
\* ranges, and a lower bound together with eq
BoundSets ==
    { [gte |-> NoNumber, gt |-> NoNumber, lte |-> NoNumber, lt |-> NoNumber, eq |-> NoNumber],
      [gte |-> 10 * Scale, gt |-> NoNumber, lte |-> NoNumber, lt |-> NoNumber, eq |-> NoNumber],
      [gte |-> NoNumber, gt |-> 10 * Scale, lte |-> NoNumber, lt |-> NoNumber, eq |-> NoNumber],
      [gte |-> NoNumber, gt |-> NoNumber, lte |-> 15 * Scale, lt |-> NoNumber, eq |-> NoNumber],
      [gte |-> NoNumber, gt |-> NoNumber, lte |-> NoNumber, lt |-> 15 * Scale, eq |-> NoNumber],
      [gte |-> NoNumber, gt |-> NoNumber, lte |-> NoNumber, lt |-> NoNumber, eq |-> 12 * Scale],
      [gte |-> 10 * Scale, gt |-> NoNumber, lte |-> 15 * Scale, lt |-> NoNumber, eq |-> NoNumber],
      [gte |-> NoNumber, gt |-> 10 * Scale, lte |-> NoNumber, lt |-> 15 * Scale, eq |-> NoNumber],
      [gte |-> 10 * Scale, gt |-> NoNumber, lte |-> NoNumber, lt |-> NoNumber, eq |-> 20 * Scale] }

WhenClauses ==
    {[metric_type |-> f.metric_type, period |-> f.period,
      gte |-> b.gte, gt |-> b.gt, lte |-> b.lte, lt |-> b.lt, eq |-> b.eq] :
        f \in Filters, b \in BoundSets}

\* limits of 5, 10, 12, 15 and 20 on three metrics, one without value, and
\* a null entry
MatchLimits ==
    { Undefined,
      Limit("seats", "per_year", 5 * Scale),
      Limit("seats", "per_year", 15 * Scale),
      Limit("seats", "per_year", NoNumber),
      Limit("seats", "per_month", 10 * Scale),
      Limit("seats", "per_month", 20 * Scale),
      Limit("users", "per_year", 12 * Scale) }

MatchLimitLists == SeqsUpTo(MatchLimits, MaxLimits)

DoublingFormula(when) ==
    [currency |-> "EUR", base_price |-> 100 * Scale,
     rules |-> <<Rule(when, 2 * Scale, NoNumber)>>]

MatchManifests(m) ==
    \E when \in WhenClauses \cup {Undefined}, limits \in MatchLimitLists :
        m = Manifest(<<>>, <<>>,
                     <<QuoteInstance("lic_1", "active", Ref1, limits)>>,
                     <<Offering("off_1", "1.0.0", QuoteRights, DoublingFormula(when))>>)

InitMatch ==
    /\ MatchManifests(manifest)
    /\ policy = NotCalled
    /\ quotes = <<>>
    /\ clock = 0
    /\ value = Undefined
    /\ other = Undefined
    /\ canon = NotCalled
    /\ edit = NotCalled

SpecMatch == InitMatch /\ [][NextQuote]_vars

\* the clause, the limits and the outcome of the manifest under study
TheWhen == manifest.license_offerings[1].price_formula.rules[1].when

TheLimits == manifest.license_instances[1].metric_limits

\* the one rule was applied to the one line item of the quote
RuleApplied(q) == q.line_items[1].amount = 200 * Scale

RuleSkipped(q) == q.line_items[1].amount = 100 * Scale

HasFilter(when) == when.metric_type # Null \/ when.period # Null

HasBound(when) ==
    \E b \in {when.gte, when.gt, when.lte, when.lt, when.eq} : b # NoNumber

\* every filter field the clause specifies is equal on this limit
PassesFilter(when, limit) ==
    /\ limit # Undefined
    /\ when.metric_type # Null => limit.metric_type = when.metric_type
    /\ when.period # Null => limit.period = when.period

\* the value of this limit satisfies every operator the clause has
SatisfiesAll(when, limit) ==
    /\ limit.limit # NoNumber
    /\ when.gte # NoNumber => limit.limit >= when.gte
    /\ when.gt # NoNumber => limit.limit > when.gt
    /\ when.lte # NoNumber => limit.limit <= when.lte
    /\ when.lt # NoNumber => limit.limit < when.lt
    /\ when.eq # NoNumber => limit.limit = when.eq

\* C22: without bound operators matching is three-way: a rule without when
\* clause always applies; a clause with neither filter nor bound always
\* matches, also without metric limits; a clause with a filter and no bound
\* matches exactly when some limit of the instance passes the filter.
C22_ThreeWayMatching ==
    \A i \in DOMAIN quotes :
        /\ ~quotes[i].threw /\ Len(quotes[i].line_items) = 1
        /\ (RuleApplied(quotes[i]) \/ RuleSkipped(quotes[i]))
        /\ TheWhen = Undefined => RuleApplied(quotes[i])
        /\ (TheWhen # Undefined /\ ~HasBound(TheWhen)) =>
               (RuleApplied(quotes[i])
                    <=> (~HasFilter(TheWhen)
                         \/ \E k \in DOMAIN TheLimits : PassesFilter(TheWhen, TheLimits[k])))

\* a clause on seats per year matches beside a limit on seats per month and
\* one on users per year only through neither: skipped; and a clause without
\* filter and bound applies to an instance without limits
C22_Witness ==
    /\ quotes # <<>>
    /\ TheWhen # Undefined
    /\ TheWhen.metric_type = "seats" /\ TheWhen.period = "per_year"
    /\ ~HasBound(TheWhen)
    /\ TheLimits = <<Limit("seats", "per_month", 10 * Scale),
                     Limit("users", "per_year", 12 * Scale)>>
    /\ RuleSkipped(quotes[1])

EmptyClauseNoLimits ==
    /\ quotes # <<>>
    /\ TheWhen # Undefined
    /\ ~HasFilter(TheWhen) /\ ~HasBound(TheWhen)
    /\ TheLimits = <<>>
    /\ RuleApplied(quotes[1])

FilterOnlyMatches ==
    /\ quotes # <<>>
    /\ TheWhen # Undefined
    /\ TheWhen.metric_type = Null /\ TheWhen.period = "per_year"
    /\ ~HasBound(TheWhen)
    /\ TheLimits = <<Limit("seats", "per_month", 10 * Scale),
                     Limit("users", "per_year", 12 * Scale)>>
    /\ RuleApplied(quotes[1])

\* C23: a clause with a bound operator matches exactly when one single
\* limit, among those passing the filter when the clause has one and among
\* all limits otherwise, has a value that satisfies every operator of the
\* clause at once.
C23_BoundMatching ==
    \A i \in DOMAIN quotes :
        (TheWhen # Undefined /\ HasBound(TheWhen)) =>
            (RuleApplied(quotes[i])
                 <=> \E k \in DOMAIN TheLimits :
                         /\ PassesFilter(TheWhen, TheLimits[k])
                         /\ SatisfiesAll(TheWhen, TheLimits[k]))

\* gte 10 and lte 15 against the limits 5 and 20: each bound is met by one
\* of them, no limit meets both, the rule is skipped
C23_Witness ==
    /\ quotes # <<>>
    /\ TheWhen # Undefined
    /\ ~HasFilter(TheWhen)
    /\ TheWhen.gte = 10 * Scale /\ TheWhen.lte = 15 * Scale
    /\ TheLimits = <<Limit("seats", "per_year", 5 * Scale),
                     Limit("seats", "per_month", 20 * Scale)>>
    /\ RuleSkipped(quotes[1])

\* eq 12 on seats: the only limit of 12 is on users, the rule is skipped
BoundMetOutsideFilter ==
    /\ quotes # <<>>
    /\ TheWhen # Undefined
    /\ TheWhen.metric_type = "seats" /\ TheWhen.period = Null
    /\ TheWhen.eq = 12 * Scale
    /\ TheLimits = <<Limit("seats", "per_year", 5 * Scale),
                     Limit("users", "per_year", 12 * Scale)>>
    /\ RuleSkipped(quotes[1])

\* a bound and no limit at all: skipped
BoundWithoutLimits ==
    /\ quotes # <<>>
    /\ TheWhen # Undefined
    /\ ~HasFilter(TheWhen) /\ HasBound(TheWhen)
    /\ TheLimits = <<>>
    /\ RuleSkipped(quotes[1])

\* gte 10 and lte 15 on seats per year, met by the second limit: applied
BoundMet ==
    /\ quotes # <<>>
    /\ TheWhen # Undefined
    /\ TheWhen.metric_type = "seats" /\ TheWhen.period = "per_year"
    /\ TheWhen.gte = 10 * Scale /\ TheWhen.lte = 15 * Scale
    /\ TheLimits = <<Limit("seats", "per_year", 5 * Scale),
                     Limit("seats", "per_year", 15 * Scale)>>
    /\ RuleApplied(quotes[1])

---------------------------------------------------------------------------
(* One outcome per license instance *)

WithLicenseId(m) ==
    {k \in DOMAIN m.license_instances : m.license_instances[k].license_id \notin {Null, ""}}

\* the skipped entry the first applicable check gives the instance, Null
\* when no check applies and the instance is to be priced
ExpectedSkip(m, instance) ==
    IF Inactive(instance) THEN instance.license_id \o ":status=" \o instance.status
    ELSE IF ~CompleteRef(instance.offering_ref)
         THEN instance.license_id \o ":offering_ref_missing"
    ELSE IF OfferingsNamed(m, instance.offering_ref) = {}
         THEN instance.license_id \o ":offering_not_found"
    ELSE Null

\* the line items that carry the license_id and the reference of the instance
LineItemsFor(q, instance) ==
    {n \in DOMAIN q.line_items :
        /\ q.line_items[n].license_id = instance.license_id
        /\ q.line_items[n].offering_id = instance.offering_ref.offering_id
        /\ q.line_items[n].offering_version = instance.offering_ref.offering_version}

\* C24: in a returned quote every instance with a license_id has exactly
\* one outcome, that of the first applicable check in the order status,
\* offering_ref, offering: a skipped entry, or else one line item;
\* line_items and skipped together have as many entries as there are such
\* instances.
C24_OneOutcomePerInstance ==
    \A i \in Returned :
        LET q == quotes[i]
            m == manifest
        IN  /\ Len(q.line_items) + Len(q.skipped) = Cardinality(WithLicenseId(m))
            /\ \A k \in WithLicenseId(m) :
                   LET instance == m.license_instances[k]
                       expected == ExpectedSkip(m, instance)
                       alike == {j \in WithLicenseId(m) :
                                    /\ ExpectedSkip(m, m.license_instances[j]) = expected
                                    /\ m.license_instances[j].license_id = instance.license_id
                                    /\ m.license_instances[j].offering_ref
                                           = instance.offering_ref}
                   IN  IF expected # Null
                       THEN Count(q.skipped, expected)
                                = Cardinality({j \in WithLicenseId(m) :
                                        ExpectedSkip(m, m.license_instances[j]) = expected})
                       ELSE Cardinality(LineItemsFor(q, instance)) = Cardinality(alike)

\* an expired instance whose reference lacks its version is skipped for its
\* status, beside an instance that is priced
C24_Witness ==
    \E i \in Returned :
        /\ Len(manifest.license_instances) = 2
        /\ \E k \in DOMAIN manifest.license_instances :
               /\ manifest.license_instances[k].license_id = "lic_1"
               /\ manifest.license_instances[k].status = "expired"
               /\ ~CompleteRef(manifest.license_instances[k].offering_ref)
        /\ quotes[i].skipped = <<"lic_1:status=expired">>
        /\ Len(quotes[i].line_items) = 1
        /\ quotes[i].line_items[1].license_id = "lic_2"

\* an incomplete reference and a reference to no offering, in one quote
RefMissingAndNotFound ==
    \E i \in Returned :
        /\ quotes[i].line_items = <<>>
        /\ quotes[i].skipped = <<"lic_1:offering_ref_missing", "lic_2:offering_not_found">>

\* an instance without license_id has no outcome
NoIdNoOutcome ==
    \E i \in Returned :
        /\ Len(manifest.license_instances) = 2
        /\ Cardinality(WithLicenseId(manifest)) = 1
        /\ Len(quotes[i].line_items) + Len(quotes[i].skipped) = 1

---------------------------------------------------------------------------
(* Post-processing of the quote *)

\* ascending in the order of localeCompare (equal keys side by side)
Ascending(keys) ==
    \A a, b \in DOMAIN keys : a < b => localeCompare(keys[a], keys[b]) <= 0

\* the amounts of this currency added up in the order of the line items,
\* rounded to two decimals after each addition
RECURSIVE C25_Total(_, _, _)
C25_Total(lineItems, currency, sum) ==
    IF lineItems = <<>> THEN sum
    ELSE C25_Total(Tail(lineItems), currency,
                   IF Head(lineItems).currency = currency
                   THEN C6_Round2((sum + Head(lineItems).amount) * Scale)
                   ELSE sum)

Currencies(lineItems) == {lineItems[n].currency : n \in DOMAIN lineItems}

SingleLineItemTotal ==
    \E i \in Returned :
        /\ Len(quotes[i].line_items) = 1
        /\ quotes[i].line_items[1].amount = 170 * Scale
        /\ quotes[i].totals = <<[key |-> "EUR", value |-> 170 * Scale]>>
        /\ Len(quotes[i].skipped) = 1

\* two line items of one currency in one total
TwoAmountsOneTotal ==
    \E i \in Returned :
        /\ Len(quotes[i].line_items) = 2
        /\ quotes[i].line_items[1].amount = 170 * Scale
        /\ quotes[i].line_items[2].amount = 100 * Scale
        /\ quotes[i].totals = <<[key |-> "EUR", value |-> 270 * Scale]>>

\* skipped entries given in the order lic_2, lic_1 and returned sorted
SkippedOutOfOrder ==
    \E i \in Returned :
        /\ Len(manifest.license_instances) = 2
        /\ manifest.license_instances[1].license_id = "lic_2"
        /\ Len(quotes[i].skipped) = 2
        /\ quotes[i].skipped[1] \in {"lic_1:status=expired", "lic_1:offering_ref_missing",
                                     "lic_1:offering_not_found"}
        /\ quotes[i].totals = <<>>

---------------------------------------------------------------------------
(* What makes the quote engine fail *)

\* the price formula is missing, or lacks its currency or a numeric base
\* price
MalformedFormula(offering) ==
    \/ offering.price_formula = Undefined
    \/ offering.price_formula.currency \in {Null, ""}
    \/ offering.price_formula.base_price = NoNumber

MalformedOfferings(m) ==
    {o \in DOMAIN m.license_offerings : MalformedFormula(m.license_offerings[o])}

\* the instances with a license_id that reference this offering
ReferencesTo(m, o) ==
    {k \in WithLicenseId(m) :
        LET ref == m.license_instances[k].offering_ref
        IN  /\ CompleteRef(ref)
            /\ ref.offering_id = m.license_offerings[o].offering_id
            /\ ref.offering_version = m.license_offerings[o].offering_version}

\* C26: generateQuote fails only when an instance that passes the three
\* skip checks resolves to an offering with a malformed price_formula.  A
\* malformed offering that no instance references, or that only instances
\* skipped for their status reference, causes no failure; neither do
\* inactive instances, incomplete references and references to no offering.
C26_FailsOnlyOnPricedMalformed ==
    \A i \in DOMAIN quotes :
        /\ quotes[i].threw => MalformedPricing(manifest) # {}
        /\ (\A o \in MalformedOfferings(manifest) :
                \A k \in ReferencesTo(manifest, o) :
                    Inactive(manifest.license_instances[k]))
           => ~quotes[i].threw
        /\ (\A k \in WithLicenseId(manifest) :
                ExpectedSkip(manifest, manifest.license_instances[k]) # Null)
           => ~quotes[i].threw

\* an offering without price formula that only an expired instance
\* references, beside a priced instance: a quote is returned
C26_Witness ==
    \E i \in Returned :
        /\ \E o \in MalformedOfferings(manifest) :
               /\ ReferencesTo(manifest, o) # {}
               /\ \A k \in ReferencesTo(manifest, o) :
                      Inactive(manifest.license_instances[k])
        /\ Len(quotes[i].line_items) = 1
        /\ Len(quotes[i].skipped) = 1

\* an offering without price formula that no instance references
MalformedUnreferenced ==
    \E i \in Returned :
        /\ \E o \in MalformedOfferings(manifest) : ReferencesTo(manifest, o) = {}
        /\ manifest.license_instances # <<>>
        /\ quotes[i].line_items # <<>>

\* the same offering priced for an active instance: the call fails
MalformedPriced ==
    /\ quotes # <<>>
    /\ quotes[1].threw
    /\ MalformedPricing(manifest) # {}
    /\ \E k \in DOMAIN manifest.license_instances :
           Inactive(manifest.license_instances[k])

---------------------------------------------------------------------------
(* The order of instances and offerings in the document *)

\* the sequence taken in the order p, a permutation of its positions
Permuted(seq, p) == [i \in DOMAIN seq |-> seq[p[i]]]

Reorders(seq) == {Permuted(seq, p) : p \in Permutations(DOMAIN seq)}

DistinctLicenseIds(m) ==
    \A j, k \in DOMAIN m.license_instances :
        m.license_instances[j].license_id = m.license_instances[k].license_id => j = k

DistinctOfferingPairs(m) ==
    \A n, o \in DOMAIN m.license_offerings :
        (/\ m.license_offerings[n].offering_id = m.license_offerings[o].offering_id
         /\ m.license_offerings[n].offering_version = m.license_offerings[o].offering_version)
            => n = o

SameQuote(q, r) ==
    /\ q.threw = r.threw
    /\ ~q.threw =>
           /\ q.line_items = r.line_items
           /\ q.totals = r.totals
           /\ q.skipped = r.skipped
           /\ q.deterministic_hash = r.deterministic_hash

\* C27: with pairwise distinct license_ids and pairwise distinct offering
\* pairs, the quote of the manifest with its license_instances or its
\* license_offerings in any other order has the same line_items, totals,
\* skipped and deterministic_hash as the quote just made.
C27_OrderInsensitive ==
    (quotes # <<>> /\ DistinctLicenseIds(manifest) /\ DistinctOfferingPairs(manifest)) =>
        \A instances \in Reorders(manifest.license_instances),
           offerings \in Reorders(manifest.license_offerings) :
            SameQuote(quotes[Len(quotes)],
                      generateQuote([manifest EXCEPT !.license_instances = instances,
                                                     !.license_offerings = offerings],
                                    quotes[Len(quotes)].generated_at))

\* two instances given as lic_2, lic_1 and two offerings, with a line item
\* and a skipped entry or two line items
C27_Witness ==
    \E i \in Returned :
        /\ DistinctLicenseIds(manifest) /\ DistinctOfferingPairs(manifest)
        /\ Len(manifest.license_offerings) = 2
        /\ Len(manifest.license_instances) = 2
        /\ manifest.license_instances[1].license_id = "lic_2"
        /\ manifest.license_instances[2].license_id = "lic_1"
        /\ Len(quotes[i].line_items) = 2
        /\ quotes[i].line_items[1].license_id = "lic_1"

\* two instances of one license_id: the order of their line items is that
\* of the document
SharedIdKeepsDocumentOrder ==
    \E i \in Returned :
        /\ ~DistinctLicenseIds(manifest)
        /\ Len(quotes[i].line_items) = 2
        /\ \E instances \in Reorders(manifest.license_instances) :
               generateQuote([manifest EXCEPT !.license_instances = instances],
                             quotes[i].generated_at).line_items # quotes[i].line_items

---------------------------------------------------------------------------
(* What each engine reads of the manifest *)

\* the manifest with nothing but what the quote is said to depend on:
\* offering_id, offering_version and price_formula of the offerings,
\* license_id, status, offering_ref and metric_limits of the instances
QuoteRelevant(m) ==
    [project |-> Undefined,
     fonts |-> <<>>,
     license_instances |->
         [k \in DOMAIN m.license_instances |->
             [m.license_instances[k] EXCEPT !.evidence = <<>>, !.scope = Undefined]],
     license_offerings |->
         [o \in DOMAIN m.license_offerings |->
             [m.license_offerings[o] EXCEPT !.rights = <<>>]]]

\* price formulas put in place of those of the manifest: none, the plain
\* one, one without currency, one with a negative base price
PriceVariants ==
    { Undefined, PlainFormula, NegativeFormula,
      [currency |-> Null, base_price |-> 100 * Scale, rules |-> <<>>] }

\* the manifest with every price_formula and every metric_limits replaced
Repriced(m, formula, limits) ==
    [m EXCEPT !.license_instances =
                  [k \in DOMAIN @ |-> [@[k] EXCEPT !.metric_limits = limits]],
              !.license_offerings =
                  [o \in DOMAIN @ |-> [@[o] EXCEPT !.price_formula = formula]]]

\* C28: the quote depends on nothing but offering_id, offering_version and
\* price_formula of the offerings and license_id, status, offering_ref and
\* metric_limits of the instances: it is the quote of the manifest without
\* project, fonts, rights, scope and evidence.  The policy result does not
\* depend on price_formula and metric_limits: it is the result for the
\* manifest with any of them in their place, a malformed price_formula
\* included.
C28_EnginesIndependent ==
    /\ \A i \in DOMAIN quotes :
           quotes[i] = generateQuote(QuoteRelevant(manifest), quotes[i].generated_at)
    /\ policy.called =>
           \A formula \in PriceVariants, limits \in MetricLimitLists :
               policy = evaluatePolicy(Repriced(manifest, formula, limits))

\* both engines ran on a manifest whose referenced offering has no price
\* formula: the quote failed, the policy findings are those of its rights
C28_Witness ==
    /\ policy.called
    /\ Len(quotes) >= 1
    /\ quotes[1].threw
    /\ \E o \in DOMAIN manifest.license_offerings :
           manifest.license_offerings[o].price_formula = Undefined
    /\ \E r \in DOMAIN policy.reasons : policy.reasons[r].code \in RightsCodes
    /\ policy.decision = "escalate"

\* a quote with line items for a manifest the policy escalates
QuotedAndEscalated ==
    /\ policy.called
    /\ policy.decision = "escalate"
    /\ \E i \in Returned : Len(quotes[i].line_items) = 2

---------------------------------------------------------------------------
(* packages/manifest-lib/src/index.js: createManifest, addFontToManifest,  *)
(* removeFontFromManifest.  The manifest is a JSON object here, an object  *)
(* being its properties in insertion order; a property can hold the        *)
(* JavaScript value undefined, which is not the same as a property that is *)
(* not there until the object goes through JSON.                           *)

JUndefined == [t |-> "undefined"]

\* lines 20-22
isObject(v) == v.t = "object"

HasProperty(obj, key) == \E i \in DOMAIN obj.entries : obj.entries[i].key = key

\* obj[key]: undefined when the property is not there
Get(obj, key) ==
    IF HasProperty(obj, key)
    THEN obj.entries[CHOOSE i \in DOMAIN obj.entries : obj.entries[i].key = key].value
    ELSE JUndefined

\* obj[key] = val: in place when the property is there, appended otherwise
Put(obj, key, val) ==
    IF HasProperty(obj, key)
    THEN JObject([i \in DOMAIN obj.entries |->
                     IF obj.entries[i].key = key THEN [key |-> key, value |-> val]
                     ELSE obj.entries[i]])
    ELSE JObject(Append(obj.entries, [key |-> key, value |-> val]))

\* a === b: by value for strings, numbers, null and undefined; two objects
\* or arrays of different origin are never the same object
StrictEquals(a, b) == a.t \notin {"object", "array"} /\ a = b

\* lines 547-549: JSON.parse(JSON.stringify(value)): a property that holds
\* undefined is dropped, an array item that is undefined becomes null
RECURSIVE deepClone(_)
deepClone(v) ==
    IF v.t = "object"
    THEN LET kept == SelectSeq(v.entries, LAMBDA e : e.value.t # "undefined")
         IN  JObject([i \in DOMAIN kept |->
                         [key |-> kept[i].key, value |-> deepClone(kept[i].value)]])
    ELSE IF v.t = "array"
    THEN JArray([i \in DOMAIN v.items |->
                    IF v.items[i].t = "undefined" THEN JNull ELSE deepClone(v.items[i])])
    ELSE v

\* lines 551-557
normalizeStringArray(v) ==
    IF v.t # "array" THEN JArray(<<>>)
    ELSE JArray(SelectSeq(v.items, LAMBDA entry : entry.t = "string"))

\* lines 498-545, for an input with projectName and projectId and none of
\* the optional fields
createManifest(input) ==
    IF input.projectName = ""
    THEN [threw |-> TRUE, error |-> "projectName must not be empty."]
    ELSE [threw |-> FALSE,
          manifest |->
              JObject(<< [key |-> "manifest_version", value |-> JString("1.0.0")],
                         [key |-> "project",
                          value |-> JObject(<< [key |-> "project_id",
                                                value |-> JString(input.projectId)],
                                               [key |-> "name",
                                                value |-> JString(input.projectName)] >>)],
                         [key |-> "licensees",
                          value |-> JArray(<< JObject(
                              << [key |-> "licensee_id",
                                  value |-> JString(input.projectId \o ".owner")],
                                 [key |-> "type", value |-> JString("organization")],
                                 [key |-> "legal_name",
                                  value |-> JString(input.projectName)] >>) >>)],
                         [key |-> "fonts", value |-> JArray(<<>>)],
                         [key |-> "license_instances", value |-> JArray(<<>>)] >>)]

\* draft.fonts when it is an array, a new empty array otherwise
fontsOf(draft) ==
    IF Get(draft, "fonts").t = "array" THEN Get(draft, "fonts").items ELSE <<>>

\* addFontToManifest without the test of lines 563-565
addFontToManifest_NoDuplicateTest(m, font) ==
    LET draft == deepClone(m)
    IN  [threw |-> FALSE,
         manifest |->
             Put(draft, "fonts",
                 JArray(Append(fontsOf(draft),
                     JObject(<< [key |-> "font_id", value |-> Get(font, "font_id")] >>))))]

\* lines 559-578
addFontToManifest(m, font) ==
    LET draft == deepClone(m)
        fonts == fontsOf(draft)
    IN  IF \E i \in DOMAIN fonts :
               isObject(fonts[i])
               /\ StrictEquals(Get(fonts[i], "font_id"), Get(font, "font_id"))
        THEN [threw |-> TRUE,
              error |-> "Font with font_id '" \o Get(font, "font_id").s
                        \o "' already exists in manifest."]
        ELSE [threw |-> FALSE,
              manifest |->
                  Put(draft, "fonts",
                      JArray(Append(fonts,
                          JObject(<< [key |-> "font_id", value |-> Get(font, "font_id")],
                                     [key |-> "family_name",
                                      value |-> Get(font, "family_name")],
                                     [key |-> "source", value |-> Get(font, "source")],
                                     [key |-> "usage", value |-> Get(font, "usage")],
                                     [key |-> "active_license_instance_id",
                                      value |-> Get(font, "active_license_instance_id")],
                                     [key |-> "license_instance_ids",
                                      value |-> normalizeStringArray(
                                          Get(font, "license_instance_ids"))] >>))))]

\* lines 580-592
removeFontFromManifest(m, fontId) ==
    LET draft == deepClone(m)
        fonts == fontsOf(draft)
        filteredFonts ==
            SelectSeq(fonts, LAMBDA entry :
                ~isObject(entry) \/ ~StrictEquals(Get(entry, "font_id"), fontId))
    IN  [manifest |-> Put(draft, "fonts", JArray(filteredFonts)),
         removed |-> Len(filteredFonts) # Len(fonts)]

\* editTargets if the two calls wrote to the manifest they were given
editTargets_Argument == {"manifest"}

\* the object the two calls write to (draft.fonts = ..., fonts.push(...)):
\* the clone of line 560 / 581, never the argument
editTargets == {"draft"}

\* the argument after a call that returned the manifest `written`
manifestAfterEdit(m, written) ==
    IF "manifest" \in editTargets THEN written ELSE m

\* the fonts a caller passes to addFontToManifest: with and without the
\* optional properties, with a license id list that holds a non-string
FontInputs ==
    { JObject(<< [key |-> "font_id", value |-> JString(FontIds[i])],
                 [key |-> "family_name", value |-> JString("Inter")] >>)
        : i \in 1..(MaxFonts + 1) }
    \cup
    { JObject(<< [key |-> "font_id", value |-> JString(FontIds[i])],
                 [key |-> "family_name", value |-> JString("Inter")],
                 [key |-> "license_instance_ids",
                  value |-> JArray(<< JString("lic_1"), JNumber(7) >>)] >>)
        : i \in 1..(MaxFonts + 1) }

AddFont ==
    /\ Len(fontsOf(manifest)) <= MaxFonts
    /\ \E font \in FontInputs :
          LET r == addFontToManifest(manifest, font)
          IN  /\ edit' = [called |-> TRUE, op |-> "addFontToManifest",
                          fontId |-> Get(font, "font_id"),
                          given |-> manifest,
                          givenAfter |-> IF r.threw THEN manifest
                                         ELSE manifestAfterEdit(manifest, r.manifest),
                          threw |-> r.threw,
                          removed |-> FALSE,
                          result |-> IF r.threw THEN JUndefined ELSE r.manifest]
              /\ manifest' = IF r.threw THEN manifest ELSE r.manifest
    /\ UNCHANGED <<policy, quotes, clock, value, other, canon>>

RemoveFont ==
    /\ \E i \in 1..(MaxFonts + 1) :
          LET r == removeFontFromManifest(manifest, JString(FontIds[i]))
          IN  /\ edit' = [called |-> TRUE, op |-> "removeFontFromManifest",
                          fontId |-> JString(FontIds[i]),
                          given |-> manifest,
                          givenAfter |-> manifestAfterEdit(manifest, r.manifest),
                          threw |-> FALSE,
                          removed |-> r.removed,
                          result |-> r.manifest]
              /\ manifest' = r.manifest
    /\ UNCHANGED <<policy, quotes, clock, value, other, canon>>

InitFonts ==
    /\ manifest = createManifest([projectName |-> "Demo", projectId |-> "demo"]).manifest
    /\ policy = NotCalled
    /\ quotes = <<>>
    /\ clock = 0
    /\ value = Undefined
    /\ other = Undefined
    /\ canon = NotCalled
    /\ edit = NotCalled

NextFonts == AddFont \/ RemoveFont

SpecFonts == InitFonts /\ [][NextFonts]_vars

\* the font_id values of the object entries of a manifest's fonts
FontIdsOf(m) ==
    LET objects == SelectSeq(fontsOf(m), LAMBDA entry : isObject(entry))
    IN  [i \in DOMAIN objects |-> Get(objects[i], "font_id")]

HasFont(m, fontId) == \E i \in DOMAIN FontIdsOf(m) : FontIdsOf(m)[i] = fontId

PairwiseDistinct(seq) ==
    \A i, j \in DOMAIN seq : i # j => seq[i] # seq[j]

\* C29: from the manifest of createManifest on, whatever addFontToManifest
\* and removeFontFromManifest calls follow, the font_ids of fonts are
\* pairwise distinct; an add with a font_id that is present throws and
\* returns no manifest; a remove returns removed = true exactly when the id
\* was present, and then a manifest without it, and otherwise the same
\* fonts (as JSON) with removed = false; the manifest passed in is as it was.
C29_DistinctFontIds ==
    /\ PairwiseDistinct(FontIdsOf(manifest))
    /\ edit # NotCalled =>
          /\ edit.givenAfter = edit.given
          /\ edit.op = "addFontToManifest" =>
                /\ HasFont(edit.given, edit.fontId) =>
                      edit.threw /\ edit.result = JUndefined
                /\ ~HasFont(edit.given, edit.fontId) =>
                      ~edit.threw /\ HasFont(edit.result, edit.fontId)
          /\ edit.op = "removeFontFromManifest" =>
                /\ edit.removed = HasFont(edit.given, edit.fontId)
                /\ ~HasFont(edit.result, edit.fontId)
                /\ ~edit.removed =>
                      Get(edit.result, "fonts") = deepClone(Get(edit.given, "fonts"))
                /\ edit.removed =>
                      Len(fontsOf(edit.result)) = Len(fontsOf(edit.given)) - 1

\* an add was refused for a font_id that is present, in a manifest of two fonts
C29_Witness ==
    /\ edit # NotCalled
    /\ edit.op = "addFontToManifest"
    /\ edit.threw
    /\ Len(fontsOf(manifest)) = 2

\* a remove took the first of two fonts out
RemovedOneOfTwo ==
    /\ edit # NotCalled
    /\ edit.op = "removeFontFromManifest"
    /\ edit.removed
    /\ Len(fontsOf(edit.given)) = 2
    /\ FontIdsOf(manifest) = << FontIdsOf(edit.given)[2] >>

\* a remove of an id that is not there, from a manifest whose font holds
\* properties that are undefined: the fonts come back without them
RemovedNothing ==
    /\ edit # NotCalled
    /\ edit.op = "removeFontFromManifest"
    /\ ~edit.removed
    /\ Len(fontsOf(edit.given)) = 1
    /\ Get(edit.result, "fonts") # Get(edit.given, "fonts")

---------------------------------------------------------------------------
(* The prune command of the CLI: buildPruneCandidates,                     *)
(* removeLinkedLicenseInstances, applyPruneCandidates.  The manifest is    *)
(* the validated document with the scan result applied; of a font the      *)
(* prune reads font_id, license_instance_ids and active_license_instance_id*)
(* (Null when absent), of a license instance license_id and status.        *)

MaxRemovals == 2       \* the largest --max-removals

\* asString of the CLI keeps the empty string; its callers test the result
\* for truth
Truthy(s) == s # Null /\ s # ""

\* asStringArray of the CLI: the strings of an array, the empty one too
cliAsStringArray(v) == SelectSeq(v, LAMBDA entry : entry # Null)

\* new Set([...]) and Array.from: first occurrences, in order
RECURSIVE Unique(_)
Unique(seq) ==
    IF seq = <<>> THEN <<>>
    ELSE LET rest == Unique(SubSeq(seq, 1, Len(seq) - 1))
             last == seq[Len(seq)]
         IN  IF \E i \in DOMAIN rest : rest[i] = last THEN rest ELSE Append(rest, last)

Elements(seq) == { seq[i] : i \in DOMAIN seq }

\* lines 395-450, the scan result and the rule being the set `selected` of
\* the fonts (by position) the rule selects: one candidate per selected
\* font, sorted by font_id
buildPruneCandidates(m, selected) ==
    LET chosen == SelectSeq([i \in DOMAIN m.fonts |-> [at |-> i, font |-> m.fonts[i]]],
                            LAMBDA c : c.at \in selected /\ Truthy(c.font.font_id))
        candidates ==
            [i \in DOMAIN chosen |->
                [font_id |-> chosen[i].font.font_id,
                 linked_license_ids |->
                     sortStrings(SelectSeq(
                         Unique(Append(cliAsStringArray(chosen[i].font.license_instance_ids),
                                       chosen[i].font.active_license_instance_id)),
                         Truthy))]]
    IN  Items(SortKeyed([i \in DOMAIN candidates |->
                            [key |-> candidates[i].font_id, item |-> candidates[i]]]))

\* the license ids a list of fonts names, through license_instance_ids or
\* active_license_instance_id (lines 459-467, 475-487)
linkedLicenseIds(fonts) ==
    UNION { Elements(cliAsStringArray(fonts[i].license_instance_ids))
            \cup (IF Truthy(fonts[i].active_license_instance_id)
                  THEN {fonts[i].active_license_instance_id} ELSE {})
          : i \in DOMAIN fonts }

\* lines 452-533; m is the draft with the kept fonts
removeLinkedLicenseInstances(m, removedFonts) ==
    LET licenseInstances == m.license_instances
        removedLinkedLicenseIds == linkedLicenseIds(removedFonts)
        remainingFonts == m.fonts
        stillReferencedLicenseIds == linkedLicenseIds(remainingFonts)
        stays(instance) ==
            \/ ~Truthy(instance.license_id)
            \/ instance.license_id \notin removedLinkedLicenseIds
            \/ instance.license_id \in stillReferencedLicenseIds
        kept == SelectSeq(licenseInstances, stays)
        gone == SelectSeq(licenseInstances, LAMBDA instance : ~stays(instance))
        remainingLicenseIds ==
            { kept[i].license_id : i \in DOMAIN kept } \ {Null, ""}
    IN  IF licenseInstances = <<>> \/ removedFonts = <<>> \/ removedLinkedLicenseIds = {}
        THEN [manifest |-> m, removedLicenseInstances |-> <<>>]
        ELSE [manifest |->
                  [m EXCEPT
                      !.license_instances = kept,
                      !.fonts = [i \in DOMAIN remainingFonts |->
                          [remainingFonts[i] EXCEPT
                              !.license_instance_ids =
                                  SelectSeq(cliAsStringArray(@),
                                            LAMBDA licenseId : licenseId \in remainingLicenseIds),
                              !.active_license_instance_id =
                                  IF Truthy(@) /\ @ \notin remainingLicenseIds
                                  THEN Null ELSE @]]],
              removedLicenseInstances |->
                  [i \in DOMAIN gone |->
                      [license_id |-> gone[i].license_id, status |-> gone[i].status]]]

\* candidates.slice(0, maxRemovals)
slice(seq, from, to) ==
    SubSeq(seq, from + 1, IF to < Len(seq) THEN to ELSE Len(seq))

\* new Map(pairs).get(fontId): the last candidate of that font_id
mapGet(candidates, fontId) ==
    candidates[CHOOSE j \in DOMAIN candidates :
                  /\ candidates[j].font_id = fontId
                  /\ \A k \in DOMAIN candidates : k > j => candidates[k].font_id # fontId]

\* the object applyPruneCandidates and removeLinkedLicenseInstances write
\* to (draft.fonts = keptFonts, manifest.license_instances = ...,
\* font.license_instance_ids = ..., delete font.active_license_instance_id):
\* the JSON copy of line 538
pruneTargets == {"draft"}

\* lines 535-574; the JSON copy of a document that was read from JSON is
\* equal to it
applyPruneCandidates(m, candidates, maxRemovals) ==
    LET limitedCandidates == slice(candidates, 0, maxRemovals)
        candidateByFontId == { limitedCandidates[i].font_id : i \in DOMAIN limitedCandidates }
        draft == m
        fonts == draft.fonts
        removes(font) == Truthy(font.font_id) /\ font.font_id \in candidateByFontId
        taken == SelectSeq(fonts, removes)
        removedFonts ==
            [i \in DOMAIN taken |->
                [font_id |-> taken[i].font_id,
                 linked_license_ids |->
                     mapGet(limitedCandidates, taken[i].font_id).linked_license_ids,
                 license_instance_ids |-> cliAsStringArray(taken[i].license_instance_ids),
                 active_license_instance_id |-> taken[i].active_license_instance_id]]
        keptFonts == SelectSeq(fonts, LAMBDA font : ~removes(font))
        withLicenseCleanup ==
            removeLinkedLicenseInstances([draft EXCEPT !.fonts = keptFonts], removedFonts)
    IN  [manifest |-> withLicenseCleanup.manifest,
         removedFonts |-> removedFonts,
         removedLicenseInstances |-> withLicenseCleanup.removedLicenseInstances,
         skippedCandidates |-> Len(candidates) - Len(limitedCandidates)]

\* the argument after a call that returned the manifest `written`
manifestAfterPrune(m, written) ==
    IF "manifest" \in pruneTargets THEN written ELSE m

\* handlePrune with --apply, lines 825-842: the candidates of the loaded
\* manifest, the prune, the save
ApplyPrune ==
    /\ \E selected \in SUBSET DOMAIN manifest.fonts, maxRemovals \in 1..MaxRemovals :
          LET candidates == buildPruneCandidates(manifest, selected)
              r == applyPruneCandidates(manifest, candidates, maxRemovals)
          IN  /\ edit' = [called |-> TRUE, op |-> "applyPruneCandidates",
                          candidates |-> candidates,
                          maxRemovals |-> maxRemovals,
                          given |-> manifest,
                          givenAfter |-> manifestAfterPrune(manifest, r.manifest),
                          result |-> r]
              /\ manifest' = r.manifest
    /\ UNCHANGED <<policy, quotes, clock, value, other, canon>>

\* the fonts of a validated manifest as the prune reads them: font_ids need
\* not differ, a license id need not name an instance
PruneFonts ==
    { [font_id |-> FontIds[i], license_instance_ids |-> ids,
       active_license_instance_id |-> active]
        : i \in 1..2,
          ids \in { <<>>, <<LicenseIds[1]>>, <<LicenseIds[2]>>,
                    <<LicenseIds[1], LicenseIds[2]>> },
          active \in {Null, LicenseIds[1]} }

PruneInstances ==
    { [license_id |-> LicenseIds[i], status |-> "active"] : i \in 1..2 }

PruneManifests(m) ==
    \E fonts \in UNION { [1..n -> PruneFonts] : n \in 0..MaxFonts },
       instances \in UNION { [1..n -> PruneInstances] : n \in 0..MaxInstances } :
        m = [fonts |-> fonts, license_instances |-> instances]

InitPrune ==
    /\ PruneManifests(manifest)
    /\ policy = NotCalled
    /\ quotes = <<>>
    /\ clock = 0
    /\ value = Undefined
    /\ other = Undefined
    /\ canon = NotCalled
    /\ edit = NotCalled

NextPrune == ApplyPrune

SpecPrune == InitPrune /\ [][NextPrune]_vars

FontIdsIn(m) == [i \in DOMAIN m.fonts |-> m.fonts[i].font_id]

\* the license instances of `given` that a prune removing `removedFonts` and
\* leaving `remaining` is to keep: all but those linked to a removed font
\* and named by no remaining font
InstancesToKeep(given, removedFonts, remaining) ==
    SelectSeq(given.license_instances, LAMBDA instance :
        ~(/\ instance.license_id \in linkedLicenseIds(removedFonts)
          /\ instance.license_id \notin linkedLicenseIds(remaining)))

Min(a, b) == IF a < b THEN a ELSE b

\* the statement of claim C30 for one call
PruneAsStated(e) ==
    LET r == e.result
        first == Min(e.maxRemovals, Len(e.candidates))
        removedCount == Len(e.given.fonts) - Len(r.manifest.fonts)
        removedIds == { r.removedLicenseInstances[i].license_id
                          : i \in DOMAIN r.removedLicenseInstances }
    IN  /\ removedCount <= e.maxRemovals
        /\ Len(r.removedFonts) = removedCount
        /\ { r.removedFonts[i].font_id : i \in DOMAIN r.removedFonts }
               = { e.candidates[i].font_id : i \in 1..first }
        /\ r.skippedCandidates = Len(e.candidates) - first
        /\ r.manifest.license_instances
               = InstancesToKeep(e.given, r.removedFonts, r.manifest.fonts)
        /\ Len(r.removedLicenseInstances)
               = Len(e.given.license_instances) - Len(r.manifest.license_instances)
        /\ linkedLicenseIds(r.manifest.fonts) \cap removedIds = {}
        /\ e.givenAfter = e.given

\* C30: applyPruneCandidates removes at most maxRemovals fonts, the first
\* candidates in font_id order, and reports the other candidates as skipped;
\* it removes a license instance exactly when its license_id was linked to a
\* removed font and no remaining font names it; afterwards no remaining font
\* names a removed instance, and the manifest passed in is as it was.
C30_Prune ==
    edit # NotCalled => PruneAsStated(edit)

\* the same for manifests whose font_ids are pairwise distinct
PruneOfDistinctFontIds ==
    (edit # NotCalled /\ PairwiseDistinct(FontIdsIn(edit.given))) => PruneAsStated(edit)

\* two fonts share a font_id, both are candidates, one removal is allowed:
\* both fonts are gone and one candidate is reported as skipped
TwoRemovedOfOneAllowed ==
    /\ edit # NotCalled
    /\ edit.maxRemovals = 1
    /\ Len(edit.candidates) = 2
    /\ FontIdsIn(edit.given) = << FontIds[1], FontIds[1] >>
    /\ edit.result.manifest.fonts = <<>>
    /\ Len(edit.result.removedFonts) = 2
    /\ edit.result.skippedCandidates = 1

\* of two fonts with one font_id only the first was a candidate: the prune
\* removed the other too
RemovedNoCandidate ==
    /\ edit # NotCalled
    /\ Len(edit.candidates) = 1
    /\ FontIdsIn(edit.given) = << FontIds[1], FontIds[1] >>
    /\ edit.result.manifest.fonts = <<>>

\* distinct font_ids: one font removed of two candidates, its instance
\* removed, a dangling reference of the remaining font cleaned
PrunedWithCleanup ==
    /\ edit # NotCalled
    /\ PairwiseDistinct(FontIdsIn(edit.given))
    /\ Len(edit.candidates) = 2
    /\ edit.maxRemovals = 1
    /\ edit.result.skippedCandidates = 1
    /\ Len(edit.result.removedLicenseInstances) = 1
    /\ \E i \in DOMAIN edit.result.manifest.fonts, j \in DOMAIN edit.given.fonts :
          /\ edit.result.manifest.fonts[i].font_id = edit.given.fonts[j].font_id
          /\ edit.result.manifest.fonts[i] # edit.given.fonts[j]

\* an instance linked to the removed font stays because the remaining font
\* names it, the other instance of the removed font goes
KeptStillReferenced ==
    /\ edit # NotCalled
    /\ PairwiseDistinct(FontIdsIn(edit.given))
    /\ Len(edit.result.removedFonts) = 1
    /\ Len(edit.result.removedFonts[1].license_instance_ids) = 2
    /\ Len(edit.result.removedLicenseInstances) = 1
    /\ Len(edit.result.manifest.license_instances) = 1
    /\ Len(edit.result.manifest.fonts) = 1

====
